---- MODULE Spec2Model ----
(***************************************************************************)
(* A model of the pokedat text-container codec (src/text_file.py,          *)
(* src/text_config.py, src/utilities.py).                                  *)
(*                                                                         *)
(* Representation.  A byte buffer (bytes / bytearray) is a sequence of     *)
(* numbers 0..255; Python offsets are 0-based, so byte offset i is element *)
(* i+1.  A str is the sequence of its code points.  A call that can raise  *)
(* returns a record [ok, val]: ok = FALSE stands for the raised exception. *)
(***************************************************************************)
EXTENDS Integers, Sequences, FiniteSets, TLC

VARIABLES
  game,      \* game_version of the TextConfig handed to TextFile
  remap,     \* TextFile.remap_characters
  pc,        \* position of the run
  input,     \* what the caller supplied for this run
  buf,       \* first artefact of the run (a container buffer, a cipher output)
  tf,        \* outcome of TextFile(buf)
  lines,     \* lines decoded from buf
  one,       \* outcome of a get_line call
  buf2,      \* second artefact (re-encoded container, second cipher output)
  lines2     \* lines decoded from buf2

vars == <<game, remap, pc, input, buf, tf, lines, one, buf2, lines2>>

---------------------------------------------------------------------------
(* Outcomes of calls that can raise.                                       *)

Ok(v) == [ok |-> TRUE, val |-> v]

Err == [ok |-> FALSE, val |-> <<>>]

None == [ok |-> FALSE, val |-> <<>>]

(* Sequencing.  Then(r, F): the rest F of a method runs on the value of a
   call that returned, and the exception of a call that raised propagates.
   With(v, F): F with a local variable bound to v. *)
Then(r, F(_)) == IF r.ok THEN F(r.val) ELSE Err

With(v, F(_)) == F(v)

(* Value of a variable the current run does not use. *)
Unused == <<>>

---------------------------------------------------------------------------
(* Constants of text_file.py.                                              *)

BASE_KEY == 31881

ADVANCE_KEY == 10627

VARIABLE_KEY == 16

TERMINATOR_KEY == 0

RETURN_TEXT_KEY == 48640

CLEAR_TEXT_KEY == 48641

WAIT_TEXT_KEY == 48642

NULL_TEXT_KEY == 48639

RUBY_TEXT_KEY == 65281

(* REMAP_CHAR_MAP: private-use unit -> Unicode code point. *)
REMAP_CHAR_MAP == (57471 :> 8239) @@ (57485 :> 8230) @@ (57486 :> 9794) @@ (57487 :> 9792)

(* EMPTY_TEXT_FILE, 20 bytes. *)
EMPTY_TEXT_FILE == <<1, 0, 0, 0, 4, 0, 0, 0, 0, 0, 0, 0, 16, 0, 0, 0, 4, 0, 0, 0>>

---------------------------------------------------------------------------
(* Sequence helpers: Python slicing, find, strip.                          *)

Min(a, b) == IF a < b THEN a ELSE b

Max(a, b) == IF a > b THEN a ELSE b

(* s[a:b] of Python for a, b >= 0: clamped to the sequence, never raises. *)
Slice(s, a, b) == LET lo == Min(a, Len(s))
                      hi == Min(b, Len(s))
                  IN  IF hi <= lo THEN <<>> ELSE SubSeq(s, lo + 1, hi)

(* A slice index as Python normalises it: a negative index counts from the
   end and is clamped at 0. *)
NormIndex(s, a) == IF a < 0 THEN Max(a + Len(s), 0) ELSE a

(* s[a:b] of Python for any integers a, b. *)
PySlice(s, a, b) == Slice(s, NormIndex(s, a), NormIndex(s, b))

RECURSIVE FindFrom(_, _, _)
(* str.find(c, i): 0-based index of the first c at or after i, or -1. *)
FindFrom(s, c, i) ==
  IF i >= Len(s) THEN -1
  ELSE IF s[i + 1] = c THEN i
  ELSE FindFrom(s, c, i + 1)

RECURSIVE Split(_, _)
(* str.split(c): the pieces between the occurrences of c. *)
Split(s, c) ==
  LET k == FindFrom(s, c, 0)
  IN  IF k < 0 THEN <<s>>
      ELSE <<Slice(s, 0, k)>> \o Split(Slice(s, k + 1, Len(s)), c)

(* The code points for which str.isspace() is true: what str.strip() removes. *)
WhiteSpace == {9, 10, 11, 12, 13, 28, 29, 30, 31, 32, 133, 160, 5760, 8232, 8233, 8239, 8287, 12288} \cup (8192 .. 8202)

RECURSIVE LStrip(_)
LStrip(s) == IF s # <<>> /\ Head(s) \in WhiteSpace THEN LStrip(Tail(s)) ELSE s

RECURSIVE RStripSet(_, _)
RStripSet(s, cs) ==
  IF s # <<>> /\ s[Len(s)] \in cs THEN RStripSet(SubSeq(s, 1, Len(s) - 1), cs) ELSE s

(* str.strip() *)
Strip(s) == RStripSet(LStrip(s), WhiteSpace)

RECURSIVE Concat(_)
(* ''.join(parts) *)
Concat(ss) == IF ss = <<>> THEN <<>> ELSE Head(ss) \o Concat(Tail(ss))

---------------------------------------------------------------------------
(* Number formatting and parsing.                                          *)

(* '0'..'9' then 'A'..'F' *)
DigitChar(d) == IF d < 10 THEN 48 + d ELSE 55 + d

RECURSIVE FormatBase(_, _)
FormatBase(n, b) ==
  IF n < b THEN <<DigitChar(n)>> ELSE FormatBase(n \div b, b) \o <<DigitChar(n % b)>>

(* f"{n}" for n >= 0 *)
Dec(n) == FormatBase(n, 10)

(* f"{n:04X}" for n >= 0: upper-case hex, zero-padded to at least 4 digits *)
Hex4(n) ==
  LET h == FormatBase(n, 16)
  IN  IF Len(h) >= 4 THEN h ELSE SubSeq(<<48, 48, 48>>, 1, 4 - Len(h)) \o h

(* Value of a digit character in base b, or -1. *)
DigitVal(c, b) ==
  LET v == IF c >= 48 /\ c <= 57 THEN c - 48
           ELSE IF c >= 65 /\ c <= 70 THEN c - 55
           ELSE IF c >= 97 /\ c <= 102 THEN c - 87
           ELSE -1
  IN  IF v >= 0 /\ v < b THEN v ELSE -1

(* Largest magnitude int() is asked to produce here; the result is then
   packed as a 16-bit unit, so anything above 65535 raises later anyway. *)
IntCap == 1000000

RECURSIVE DigitsValue(_, _, _)
(* Value of a non-empty run of base-b digits (capped), or -1 if a character
   is no digit. *)
DigitsValue(s, b, acc) ==
  IF s = <<>> THEN acc
  ELSE IF DigitVal(Head(s), b) < 0 THEN -1
  ELSE DigitsValue(Tail(s), b, Min(acc * b + DigitVal(Head(s), b), IntCap))

(* int(s, b) for b in {10, 16}: surrounding white space, one sign, and for
   base 16 a 0x / 0X prefix are accepted; ValueError otherwise.  The digit
   separator '_' and non-ASCII digits, which int() also accepts, do not occur
   in the strings this model encodes. *)
ParseInt(s, b) ==
  With(Strip(s), LAMBDA t :
    LET neg  == t # <<>> /\ Head(t) = 45
        u    == IF t # <<>> /\ Head(t) \in {43, 45} THEN Tail(t) ELSE t
        pre  == b = 16 /\ Len(u) >= 2 /\ u[1] = 48 /\ u[2] \in {120, 88}
        d    == IF pre THEN Slice(u, 2, Len(u)) ELSE u
        v    == DigitsValue(d, b, 0)
    IN  IF d = <<>> \/ v < 0 THEN Err ELSE Ok(IF neg THEN 0 - v ELSE v))

---------------------------------------------------------------------------
(* 16-bit words.                                                           *)

RECURSIVE XorBits(_, _, _)
(* a ^ b on n-bit operands *)
XorBits(a, b, n) ==
  IF n = 0 THEN 0
  ELSE ((a + b) % 2) + 2 * XorBits(a \div 2, b \div 2, n - 1)

(* A variant of the word cipher that adds the key modulo 2^16 in place of the
   exclusive or: a step that is not its own inverse. *)
Add16(a, b) == (a + b) % 65536

Xor16(a, b) == XorBits(a, b, 16)

(* ((key << 3) | (key >> 13)) & 0xFFFF *)
RotateKey(key) == ((key * 8) % 65536) + (key \div 8192)

(* struct.unpack_from('<H', d, i) is possible *)
CanRead(d, i, n) == i >= 0 /\ i + n <= Len(d)

(* struct.unpack_from('<H', d, i)[0] *)
U16(d, i) == d[i + 1] + 256 * d[i + 2]

(* struct.unpack_from('<I', d, i)[0] *)
U32(d, i) == d[i + 1] + 256 * d[i + 2] + 65536 * d[i + 3] + 16777216 * d[i + 4]

(* struct.unpack_from('<i', d, i)[0] *)
I32(d, i) ==
  IF d[i + 4] >= 128
  THEN d[i + 1] + 256 * d[i + 2] + 65536 * d[i + 3] + 16777216 * (d[i + 4] - 256)
  ELSE U32(d, i)

(* struct.pack('<H', v) *)
P16(v) == <<v % 256, v \div 256>>

(* struct.pack('<I', v) *)
P32(v) == <<v % 256, (v \div 256) % 256, (v \div 65536) % 256, v \div 16777216>>

(* struct.pack('<i', v): two's complement *)
PI32(v) == IF v < 0 THEN <<v % 256, (v \div 256) % 256, (v \div 65536) % 256, 256 + (v \div 16777216)>> ELSE P32(v)

(* Value ranges struct accepts for each format. *)
IsU16(v) == v >= 0 /\ v <= 65535

(* The offsets and lengths packed as '<i' / '<I' here stay far below 2^31. *)
IsI32(v) == v >= -2147483647 - 1 /\ v <= 2147483647

(* struct.pack_into: d with the bytes bs written at offset i (CanRead holds). *)
Poke(d, i, bs) == [k \in 1 .. Len(d) |-> IF k > i /\ k <= i + Len(bs) THEN bs[k - i] ELSE d[k]]

---------------------------------------------------------------------------
(* text_config.py: the per-game variable tables, in declaration order, and  *)
(* TextConfig.                                                              *)

LGPE_VARIABLES ==
  <<
    [code |-> 65280, name |-> <<67, 79, 76, 79, 82>>],                         \* 0xFF00 COLOR
    [code |-> 256, name |-> <<84, 82, 78, 65, 77, 69>>],                       \* 0x0100 TRNAME
    [code |-> 257, name |-> <<80, 79, 75, 78, 65, 77, 69>>],                   \* 0x0101 POKNAME
    [code |-> 258, name |-> <<80, 75, 78, 73, 67, 75>>],                       \* 0x0102 PKNICK
    [code |-> 259, name |-> <<84, 89, 80, 69>>],                               \* 0x0103 TYPE
    [code |-> 260, name |-> <<83, 80, 69, 67, 73, 69, 83>>],                   \* 0x0104 SPECIES
    [code |-> 261, name |-> <<76, 79, 67, 65, 84, 73, 79, 78>>],               \* 0x0105 LOCATION
    [code |-> 262, name |-> <<65, 66, 73, 76, 73, 84, 89>>],                   \* 0x0106 ABILITY
    [code |-> 263, name |-> <<77, 79, 86, 69>>],                               \* 0x0107 MOVE
    [code |-> 264, name |-> <<73, 84, 69, 77, 49>>],                           \* 0x0108 ITEM1
    [code |-> 265, name |-> <<73, 84, 69, 77, 50>>],                           \* 0x0109 ITEM2
    [code |-> 267, name |-> <<71, 69, 82, 77, 48, 48>>],                       \* 0x010B GERM00
    [code |-> 268, name |-> <<80, 75, 77, 76, 86, 85, 80>>],                   \* 0x010C PKMLVUP
    [code |-> 269, name |-> <<69, 86, 83, 84, 65, 84>>],                       \* 0x010D EVSTAT
    [code |-> 270, name |-> <<84, 82, 67, 76, 65, 83, 83>>],                   \* 0x010E TRCLASS
    [code |-> 272, name |-> <<71, 69, 82, 77, 48, 49>>],                       \* 0x0110 GERM01
    [code |-> 274, name |-> <<66, 65, 71>>],                                   \* 0x0112 BAG
    [code |-> 266, name |-> <<73, 84, 69, 77, 66, 65, 71>>],                   \* 0x010A ITEMBAG
    [code |-> 301, name |-> <<70, 79, 82, 66, 73, 68, 68, 69, 78, 67, 72, 65, 82>>], \* 0x012D FORBIDDENCHAR
    [code |-> 302, name |-> <<77, 73, 83, 84, 69, 82, 89, 67, 65, 80>>],       \* 0x012E MISTERYCAP
    [code |-> 432, name |-> <<87, 66, 65, 76, 76, 84, 89, 80, 69>>],           \* 0x01B0 WBALLTYPE
    [code |-> 433, name |-> <<83, 84, 80, 75, 77>>],                           \* 0x01B1 STPKM
    [code |-> 454, name |-> <<83, 84, 89, 76, 69, 73, 84, 69, 77>>],           \* 0x01C6 STYLEITEM
    [code |-> 457, name |-> <<80, 71, 79, 84, 82, 65, 73, 78, 69, 82>>],       \* 0x01C9 PGOTRAINER
    [code |-> 456, name |-> <<83, 85, 80, 80, 79, 82, 84>>],                   \* 0x01C8 SUPPORT
    [code |-> 458, name |-> <<71, 73, 70, 84, 48, 48>>],                       \* 0x01CA GIFT00
    [code |-> 459, name |-> <<71, 79, 80, 65, 82, 75, 76, 79, 67, 65, 76>>],   \* 0x01CB GOPARKLOCAL
    [code |-> 460, name |-> <<71, 79, 80, 65, 82, 75, 80, 75, 77>>],           \* 0x01CC GOPARKPKM
    [code |-> 462, name |-> <<80, 75, 77, 80, 75, 69, 86, 69, 69>>],           \* 0x01CE PKMPKEVEE
    [code |-> 461, name |-> <<82, 73, 86, 65, 76, 78, 65, 77, 69>>],           \* 0x01CD RIVALNAME
    [code |-> 414, name |-> <<70, 82, 124, 71, 69, 82, 124, 83, 80, 65>>],     \* 0x019E FR|GER|SPA
    [code |-> 4096, name |-> <<78, 85, 77, 48>>],                              \* 0x1000 NUM0
    [code |-> 4097, name |-> <<78, 85, 77, 49, 48>>],                          \* 0x1001 NUM10
    [code |-> 4098, name |-> <<70, 82, 65, 73, 84, 65>>],                      \* 0x1002 FRAITA
    [code |-> 4352, name |-> <<71, 69, 78, 68, 66, 82>>],                      \* 0x1100 GENDBR
    [code |-> 4353, name |-> <<73, 84, 69, 77, 80, 76, 85, 82, 49>>],          \* 0x1101 ITEMPLUR1
    [code |-> 4354, name |-> <<70, 82, 65, 73, 84, 65, 48, 49>>],              \* 0x1102 FRAITA01
    [code |-> 4356, name |-> <<71, 65, 82, 84, 70, 82>>],                      \* 0x1104 GARTFR
    [code |-> 4866, name |-> <<73, 78, 68, 69, 70, 95, 65, 82, 84>>],          \* 0x1302 INDEF_ART
    [code |-> 4867, name |-> <<65, 77, 79, 85, 78, 84>>],                      \* 0x1303 AMOUNT
    [code |-> 5120, name |-> <<65, 82, 84, 70, 82, 65>>],                      \* 0x1400 ARTFRA
    [code |-> 5121, name |-> <<68, 65, 82, 84, 70, 82, 65>>],                  \* 0x1401 DARTFRA
    [code |-> 5122, name |-> <<73, 78, 65, 82, 84, 70, 82, 65>>],              \* 0x1402 INARTFRA
    [code |-> 5123, name |-> <<86, 65, 82, 70, 82, 65, 48, 48>>],              \* 0x1403 VARFRA00
    [code |-> 5124, name |-> <<86, 65, 82, 70, 82, 65, 48, 49>>],              \* 0x1404 VARFRA01
    [code |-> 5126, name |-> <<86, 65, 82, 70, 82, 65, 48, 50>>],              \* 0x1406 VARFRA02
    [code |-> 5128, name |-> <<86, 65, 82, 70, 82, 65, 48, 51>>],              \* 0x1408 VARFRA03
    [code |-> 5130, name |-> <<86, 65, 82, 70, 82, 65, 48, 51>>],              \* 0x140A VARFRA03
    [code |-> 5376, name |-> <<86, 65, 82, 73, 84, 65, 48, 48>>],              \* 0x1500 VARITA00
    [code |-> 5377, name |-> <<86, 65, 82, 73, 84, 65, 48, 49>>],              \* 0x1501 VARITA01
    [code |-> 5378, name |-> <<86, 65, 82, 73, 84, 65, 48, 50>>],              \* 0x1502 VARITA02
    [code |-> 5379, name |-> <<86, 65, 82, 73, 84, 65, 48, 51>>],              \* 0x1503 VARITA03
    [code |-> 5380, name |-> <<86, 65, 82, 73, 84, 65, 48, 52>>],              \* 0x1504 VARITA04
    [code |-> 5382, name |-> <<86, 65, 82, 73, 84, 65, 48, 53>>],              \* 0x1506 VARITA05
    [code |-> 5384, name |-> <<86, 65, 82, 73, 84, 65, 48, 54>>],              \* 0x1508 VARITA06
    [code |-> 5386, name |-> <<86, 65, 82, 73, 84, 65, 48, 55>>],              \* 0x150A VARITA07
    [code |-> 5635, name |-> <<86, 65, 82, 71, 69, 82, 48, 48>>],              \* 0x1603 VARGER00
    [code |-> 5638, name |-> <<86, 65, 82, 71, 69, 82, 48, 49>>],              \* 0x1606 VARGER01
    [code |-> 5888, name |-> <<86, 65, 82, 69, 83, 80, 48, 48>>],              \* 0x1700 VARESP00
    [code |-> 5889, name |-> <<86, 65, 82, 69, 83, 80, 48, 49>>],              \* 0x1701 VARESP01
    [code |-> 5890, name |-> <<86, 65, 82, 69, 83, 80, 48, 50>>],              \* 0x1702 VARESP02
    [code |-> 5892, name |-> <<86, 65, 82, 69, 83, 80, 48, 51>>],              \* 0x1704 VARESP03
    [code |-> 5894, name |-> <<86, 65, 82, 69, 83, 80, 48, 52>>],              \* 0x1706 VARESP04
    [code |-> 5896, name |-> <<86, 65, 82, 69, 83, 80, 48, 53>>],              \* 0x1708 VARESP05
    [code |-> 5897, name |-> <<86, 65, 82, 69, 83, 80, 48, 54>>],              \* 0x1709 VARESP06
    [code |-> 6400, name |-> <<86, 65, 82, 75, 79, 82, 48, 48>>],              \* 0x1900 VARKOR00
    [code |-> 512, name |-> <<78, 85, 77, 49>>],                               \* 0x0200 NUM1
    [code |-> 513, name |-> <<78, 85, 77, 50>>],                               \* 0x0201 NUM2
    [code |-> 514, name |-> <<78, 85, 77, 51>>],                               \* 0x0202 NUM3
    [code |-> 515, name |-> <<78, 85, 77, 52>>],                               \* 0x0203 NUM4
    [code |-> 516, name |-> <<78, 85, 77, 53>>],                               \* 0x0204 NUM5
    [code |-> 517, name |-> <<78, 85, 77, 54>>],                               \* 0x0205 NUM6
    [code |-> 518, name |-> <<78, 85, 77, 55>>],                               \* 0x0206 NUM7
    [code |-> 519, name |-> <<78, 85, 77, 56>>],                               \* 0x0207 NUM8
    [code |-> 520, name |-> <<78, 85, 77, 57>>],                               \* 0x0208 NUM9
    [code |-> 393, name |-> <<85, 78, 75, 78, 79, 87, 78, 80, 79, 75, 69, 77, 79, 78>>], \* 0x0189 UNKNOWNPOKEMON
    [code |-> 48387, name |-> <<83, 89, 77, 66, 79, 76>>],                     \* 0xBD03 SYMBOL
    [code |-> 48388, name |-> <<66, 84, 76, 84, 80, 70, 88>>],                 \* 0xBD04 BTLTPFX
    [code |-> 48390, name |-> <<66, 84, 69, 70, 69, 67, 84>>],                 \* 0xBD06 BTEFECT
    [code |-> 48645, name |-> <<83, 70, 88>>],                                 \* 0xBE05 SFX
    [code |-> 58112, name |-> <<8381>>]                                        \* 0xE300 pokedollar sign U+20BD
  >>

SWSH_VARIABLES ==
  <<
    [code |-> 65280, name |-> <<67, 79, 76, 79, 82>>]                          \* 0xFF00 COLOR
  >>

LA_VARIABLES ==
  <<
    [code |-> 65280, name |-> <<67, 79, 76, 79, 82>>]                          \* 0xFF00 COLOR
  >>

SV_VARIABLES ==
  <<
    [code |-> 65280, name |-> <<67, 79, 76, 79, 82>>]                          \* 0xFF00 COLOR
  >>

LZA_VARIABLES ==
  <<
    [code |-> 65280, name |-> <<67, 79, 76, 79, 82>>],                         \* 0xFF00 COLOR
    [code |-> 256, name |-> <<84, 82, 78, 65, 77, 69>>],                       \* 0x0100 TRNAME
    [code |-> 257, name |-> <<80, 79, 75, 78, 65, 77, 69>>],                   \* 0x0101 POKNAME
    [code |-> 258, name |-> <<80, 75, 78, 73, 67, 75>>],                       \* 0x0102 PKNICK
    [code |-> 259, name |-> <<84, 89, 80, 69>>],                               \* 0x0103 TYPE
    [code |-> 260, name |-> <<83, 80, 69, 67, 73, 69, 83>>],                   \* 0x0104 SPECIES
    [code |-> 261, name |-> <<76, 79, 67, 65, 84, 73, 79, 78>>],               \* 0x0105 LOCATION
    [code |-> 262, name |-> <<65, 66, 73, 76, 73, 84, 89>>],                   \* 0x0106 ABILITY
    [code |-> 263, name |-> <<77, 79, 86, 69>>],                               \* 0x0107 MOVE
    [code |-> 264, name |-> <<73, 84, 69, 77, 49>>],                           \* 0x0108 ITEM1
    [code |-> 265, name |-> <<73, 84, 69, 77, 50>>],                           \* 0x0109 ITEM2
    [code |-> 58112, name |-> <<8381>>],                                       \* 0xE300 pokedollar sign U+20BD
    [code |-> 4352, name |-> <<71, 69, 78, 68, 66, 82>>]                       \* 0x1100 GENDBR
  >>

(* A lookup that falls back to the LGPE table for an unknown identifier. *)
VariablesWithFallback(g) ==
  CASE g = "LGPE" -> LGPE_VARIABLES
    [] g = "SWSH" -> SWSH_VARIABLES
    [] g = "LA"   -> LA_VARIABLES
    [] g = "SV"   -> SV_VARIABLES
    [] g = "LZA"  -> LZA_VARIABLES
    [] OTHER      -> LGPE_VARIABLES

(* GAME_VARIABLES.get(game_version, {}) *)
get_variables(g) ==
  CASE g = "LGPE" -> LGPE_VARIABLES
    [] g = "SWSH" -> SWSH_VARIABLES
    [] g = "LA"   -> LA_VARIABLES
    [] g = "SV"   -> SV_VARIABLES
    [] g = "LZA"  -> LZA_VARIABLES
    [] OTHER      -> <<>>

(* TextConfig(g) returns an object: it raises when the table is empty. *)
TextConfig_ok(g) == get_variables(g) # <<>>

(* self.config.variables of the TextFile at hand *)
variables == get_variables(game)

(* table.get(code, default): no table repeats a code. *)
DictGet(table, code, default) ==
  With({k \in DOMAIN table : table[k].code = code}, LAMBDA hits :
    IF hits = {} THEN default ELSE table[CHOOSE k \in hits : TRUE].name)

(* TextConfig.get_variable_string *)
get_variable_string(code) == DictGet(variables, code, Hex4(code))

(* for code, var_name in table.items(): if var_name == name: the code of the
   first entry, in declaration order, whose name is the given one; -1 when
   the loop ends without a match. *)
CodeNamed(table, name) ==
  With({k \in DOMAIN table : table[k].name = name}, LAMBDA hits :
    IF hits = {} THEN -1 ELSE table[CHOOSE k \in hits : \A m \in hits : k <= m].code)

(* TextConfig.get_variable_number *)
get_variable_number(name) ==
  With(CodeNamed(variables, name), LAMBDA code :
    IF code >= 0 THEN Ok(code)
    ELSE IF Len(name) >= 2 /\ name[1] = 48 /\ name[2] = 120
         THEN ParseInt(Slice(name, 2, Len(name)), 16)
         ELSE ParseInt(name, 16))

---------------------------------------------------------------------------
(* TextFile: the line cipher.                                               *)

RECURSIVE CipherFrom(_, _, _)
(* The loop of encrypt_line_data from byte offset i on: each 16-bit word is
   XORed with the key, then the key is rotated.  unpack_from raises on the
   last byte of an odd-length buffer. *)
CipherFrom(result, i, key) ==
  IF i >= Len(result) THEN Ok(result)
  ELSE IF ~CanRead(result, i, 2) THEN Err
  ELSE CipherFrom(Poke(result, i, P16(Xor16(U16(result, i), key))), i + 2, RotateKey(key))

(* TextFile.encrypt_line_data: works on a copy (bytearray(data)). *)
encrypt_line_data(data, key) == CipherFrom(data, 0, key)

(* A variant of the step between lines on write: the rotation the line_data
   getter uses, in place of the addition. *)
RotatedLineKey(key) == RotateKey(key)

(* key = (key + ADVANCE_KEY) & 0xFFFF, the step between lines in
   convert_lines_to_data *)
NextLineKey(key) == (key + ADVANCE_KEY) % 65536

(* The same step in the lines getter. *)
NextLineKeyOnRead(key) == (key + ADVANCE_KEY) % 65536

RECURSIVE LineKeyByRotation(_)
(* A variant of get_line_key: BASE_KEY rotated once per preceding line. *)
LineKeyByRotation(index) == IF index <= 0 THEN BASE_KEY ELSE RotateKey(LineKeyByRotation(index - 1))

(* TextFile.get_line_key *)
get_line_key(index) == (BASE_KEY + index * ADVANCE_KEY) % 65536

(* TextFile.try_remap_character *)
try_remap_character(val) ==
  IF ~remap THEN val
  ELSE IF val \in DOMAIN REMAP_CHAR_MAP THEN REMAP_CHAR_MAP[val] ELSE val

---------------------------------------------------------------------------
(* TextFile: code units -> text (parse_line_string, parse_variable_string). *)

RECURSIVE ParseLineFrom(_, _, _)
RECURSIVE parse_line_string(_)
RECURSIVE parse_variable_string(_, _)
RECURSIVE ReadArgs(_, _, _)

(* The arguments loop of the named-variable branch: n further units from
   byte offset i, each rendered f"{arg:04X}". *)
ReadArgs(data, i, n) ==
  IF n <= 0 THEN Ok(<<>>)
  ELSE IF ~CanRead(data, i, 2) THEN Err
  ELSE Then(ReadArgs(data, i + 2, n - 1), LAMBDA rest : Ok(<<Hex4(U16(data, i))>> \o rest))

RECURSIVE JoinWith(_, _)
(* c.join(parts) *)
JoinWith(parts, c) ==
  IF parts = <<>> THEN <<>>
  ELSE IF Len(parts) = 1 THEN parts[1]
  ELSE parts[1] \o <<c>> \o JoinWith(Tail(parts), c)

(* The ruby branch of parse_variable_string; i is the offset after the
   variable identifier. *)
ParseRuby(data, start, i) ==
  IF ~CanRead(data, i, 2) \/ ~CanRead(data, i + 2, 2) THEN Err
  ELSE With(U16(data, i), LAMBDA base_len :
    LET ruby_len == U16(data, i + 2)
        i1    == i + 4
        base1 == Slice(data, i1, i1 + base_len * 2)
        i2    == i1 + base_len * 2
        ruby  == Slice(data, i2, i2 + ruby_len * 2)
        i3    == i2 + ruby_len * 2
        base2 == Slice(data, i3, i3 + base_len * 2)
        i4    == i3 + base_len * 2
        s1    == parse_line_string(base1)
        s2    == parse_line_string(ruby)
        s3    == parse_line_string(base2)
    IN  IF ~s1.ok \/ ~s2.ok THEN Err
        ELSE IF base1 # base2
             THEN IF ~s3.ok THEN Err
                  ELSE Ok([str |-> <<123>> \o s1.val \o <<124>> \o s2.val \o <<124>> \o s3.val \o <<125>>,
                           consumed |-> i4 - start])
             ELSE Ok([str |-> <<123>> \o s1.val \o <<124>> \o s2.val \o <<125>>,
                      consumed |-> i4 - start]))

(* The named-variable branch of parse_variable_string: "[VAR " name, then
   "(" args ")" when count > 1, then "]". *)
ParseNamed(data, start, i, count, variable) ==
  With(get_variable_string(variable), LAMBDA var_name :
    IF count > 1
    THEN Then(ReadArgs(data, i, count - 1), LAMBDA args :
           Ok([str |-> <<91, 86, 65, 82, 32>> \o var_name \o <<40>> \o JoinWith(args, 44) \o <<41, 93>>,
               consumed |-> (i + 2 * (count - 1)) - start]))
    ELSE Ok([str |-> <<91, 86, 65, 82, 32>> \o var_name \o <<93>>, consumed |-> i - start]))

(* TextFile.parse_variable_string(data, start): (text, bytes consumed). *)
parse_variable_string(data, start) ==
  IF ~CanRead(data, start, 2) \/ ~CanRead(data, start + 2, 2) THEN Err
  ELSE With(U16(data, start + 2), LAMBDA variable :
    LET count == U16(data, start)
        i     == start + 4
    IN  IF variable = RETURN_TEXT_KEY THEN Ok([str |-> <<92, 114>>, consumed |-> i - start])
        ELSE IF variable = CLEAR_TEXT_KEY THEN Ok([str |-> <<92, 99>>, consumed |-> i - start])
        ELSE IF variable = WAIT_TEXT_KEY
             THEN IF ~CanRead(data, i, 2) THEN Err
                  ELSE Ok([str |-> <<91, 87, 65, 73, 84, 32>> \o Dec(U16(data, i)) \o <<93>>,
                           consumed |-> (i + 2) - start])
        ELSE IF variable = NULL_TEXT_KEY
             THEN IF ~CanRead(data, i, 2) THEN Err
                  ELSE Ok([str |-> <<91, 126, 32>> \o Dec(U16(data, i)) \o <<93>>,
                           consumed |-> (i + 2) - start])
        ELSE IF variable = RUBY_TEXT_KEY THEN ParseRuby(data, start, i)
        ELSE ParseNamed(data, start, i, count, variable))

(* The default branch of parse_line_string: the table's name for the unit
   when it has one, else the character of the (remapped) unit. *)
PlainUnitText(val) ==
  With(get_variable_string(val), LAMBDA mapped :
    IF mapped # Hex4(val) THEN mapped ELSE <<try_remap_character(val)>>)

(* The while loop of parse_line_string: i is the read offset, s the text
   written so far. *)
ParseLineFrom(data, i, s) ==
  IF i >= Len(data) THEN Ok(s)
  ELSE IF ~CanRead(data, i, 2) THEN Err
  ELSE With(U16(data, i), LAMBDA val :
    LET j == i + 2
    IN  IF val = TERMINATOR_KEY THEN Ok(s)
        ELSE IF val = VARIABLE_KEY
             THEN Then(parse_variable_string(data, j), LAMBDA v :
                    ParseLineFrom(data, j + v.consumed, s \o v.str))
        ELSE IF val = 10 THEN ParseLineFrom(data, j, s \o <<92, 110>>)
        ELSE IF val = 92 THEN ParseLineFrom(data, j, s \o <<92, 92>>)
        ELSE IF val = 91 THEN ParseLineFrom(data, j, s \o <<92, 91>>)
        ELSE IF val = 123 THEN ParseLineFrom(data, j, s \o <<92, 123>>)
        ELSE ParseLineFrom(data, j, s \o PlainUnitText(val)))

(* TextFile.parse_line_string *)
parse_line_string(data) == ParseLineFrom(data, 0, <<>>)

---------------------------------------------------------------------------
(* TextFile: text -> code units (string_to_line_data and its sub-parsers).  *)

(* An escape table whose \r and \c entries both hold the return code. *)
EscapesWithoutClear(esc) ==
  CASE esc = 110 -> Ok(<<10>>)
    [] esc = 92  -> Ok(<<92>>)
    [] esc = 91  -> Ok(<<91>>)
    [] esc = 123 -> Ok(<<123>>)
    [] esc = 114 -> Ok(<<VARIABLE_KEY, 1, RETURN_TEXT_KEY>>)
    [] esc = 99  -> Ok(<<VARIABLE_KEY, 1, RETURN_TEXT_KEY>>)
    [] OTHER     -> Err

(* TextFile.parse_escape_values: ESC_MAP, ValueError for any other character. *)
parse_escape_values(esc) ==
  CASE esc = 110 -> Ok(<<10>>)
    [] esc = 92  -> Ok(<<92>>)
    [] esc = 91  -> Ok(<<91>>)
    [] esc = 123 -> Ok(<<123>>)
    [] esc = 114 -> Ok(<<VARIABLE_KEY, 1, RETURN_TEXT_KEY>>)
    [] esc = 99  -> Ok(<<VARIABLE_KEY, 1, CLEAR_TEXT_KEY>>)
    [] OTHER     -> Err

RECURSIVE ParseHexArgs(_)
(* int(arg, 16) for arg in arg_list *)
ParseHexArgs(arg_list) ==
  IF arg_list = <<>> THEN Ok(<<>>)
  ELSE Then(ParseInt(Head(arg_list), 16), LAMBDA a :
         Then(ParseHexArgs(Tail(arg_list)), LAMBDA rest : Ok(<<a>> \o rest)))

(* The VAR branch of parse_variable_values. *)
ParseVarArgs(args) ==
  With(FindFrom(args, 40, 0), LAMBDA paren :
    IF paren >= 0
    THEN LET var      == Slice(args, 0, paren)
             arg_str  == Slice(args, paren + 1, Len(args))
             arg_list == Split(RStripSet(arg_str, {41}), 44)
             number   == get_variable_number(var)
             values   == ParseHexArgs(arg_list)
         IN  IF number.ok /\ values.ok
             THEN Ok(<<VARIABLE_KEY, 1 + Len(arg_list), number.val>> \o values.val)
             ELSE Err
    ELSE Then(get_variable_number(args), LAMBDA number : Ok(<<VARIABLE_KEY, 1, number>>)))

(* TextFile.parse_variable_values: the body of a [...] token. *)
parse_variable_values(text) ==
  With(FindFrom(text, 32, 0), LAMBDA space :
    IF space = -1 THEN Err
    ELSE LET command == Slice(text, 0, space)
             args    == Slice(text, space + 1, Len(text))
             number  == ParseInt(args, 10)
         IN  IF command = <<126>>
             THEN IF number.ok THEN Ok(<<VARIABLE_KEY, 2, NULL_TEXT_KEY, number.val>>) ELSE Err
             ELSE IF command = <<87, 65, 73, 84>>
             THEN IF number.ok THEN Ok(<<VARIABLE_KEY, 2, WAIT_TEXT_KEY, number.val>>) ELSE Err
             ELSE IF command = <<86, 65, 82>> THEN ParseVarArgs(args)
             ELSE Err)

(* [try_remap_character(ord(c)) for c in s] *)
RemapAll(s) == [k \in 1 .. Len(s) |-> try_remap_character(s[k])]

(* A ruby encoder that repeats the first base where the text gives a second. *)
RubyRepeatingBase(text) ==
  With(Split(text, 124), LAMBDA parts :
    IF Len(parts) \notin {2, 3} THEN Err
    ELSE LET base1 == parts[1]
             ruby  == parts[2]
             base2 == IF Len(parts) = 3 THEN parts[3] ELSE base1
         IN  IF Len(base1) # Len(base2) THEN Err
             ELSE Ok(<<VARIABLE_KEY, 3 + Len(base1) + Len(ruby), RUBY_TEXT_KEY, Len(base1), Len(ruby)>>
                     \o RemapAll(base1) \o RemapAll(ruby) \o RemapAll(base1)))

(* TextFile.parse_ruby_values: the body of a {...} token. *)
parse_ruby_values(text) ==
  With(Split(text, 124), LAMBDA parts :
    IF Len(parts) \notin {2, 3} THEN Err
    ELSE LET base1 == parts[1]
             ruby  == parts[2]
             base2 == IF Len(parts) = 3 THEN parts[3] ELSE base1
         IN  IF Len(base1) # Len(base2) THEN Err
             ELSE Ok(<<VARIABLE_KEY, 3 + Len(base1) + Len(ruby), RUBY_TEXT_KEY, Len(base1), Len(ruby)>>
                     \o RemapAll(base1) \o RemapAll(ruby) \o RemapAll(base2)))

(* A plain character encoded by its code point alone. *)
PlainCharByCodePoint(c) == try_remap_character(c)

(* The plain-character branch of string_to_line_data: the code of the first
   table entry whose name is the character itself, else the (remapped) code
   point. *)
PlainCharUnit(c) ==
  With(CodeNamed(variables, <<c>>), LAMBDA code :
    IF code >= 0 THEN code ELSE try_remap_character(c))

RECURSIVE EncodeFrom(_, _, _)
(* The while loop of string_to_line_data: i is the character index, result
   the units appended so far. *)
EncodeFrom(line, i, result) ==
  IF i >= Len(line) THEN Ok(result)
  ELSE With(line[i + 1], LAMBDA c :
    LET j == i + 1
    IN  IF c = 91
        THEN LET end == FindFrom(line, 93, j)
                 v   == parse_variable_values(Slice(line, j, end))
             IN  IF end < 0 \/ ~v.ok THEN Err
                 ELSE EncodeFrom(line, end + 1, result \o v.val)
        ELSE IF c = 123
        THEN LET end == FindFrom(line, 125, j)
                 v   == parse_ruby_values(Slice(line, j, end))
             IN  IF end < 0 \/ ~v.ok THEN Err
                 ELSE EncodeFrom(line, end + 1, result \o v.val)
        ELSE IF c = 92
        THEN IF j >= Len(line) THEN Err
             ELSE LET v == parse_escape_values(line[j + 1])
                  IN  IF ~v.ok THEN Err ELSE EncodeFrom(line, j + 1, result \o v.val)
        ELSE EncodeFrom(line, j, result \o <<PlainCharUnit(c)>>))

RECURSIVE PackUnits(_)
(* struct.pack('<' + 'H' * n, *units) once every unit is known to fit *)
PackUnits(units) == IF units = <<>> THEN <<>> ELSE P16(Head(units)) \o PackUnits(Tail(units))

(* A pack that keeps the low 16 bits of every unit. *)
PackTruncating(units) == Ok(PackUnits([k \in DOMAIN units |-> units[k] % 65536]))

(* struct.pack('<HH...', *units): struct.error unless every unit is in
   0..65535. *)
PackLine(units) ==
  IF \A k \in 1 .. Len(units) : IsU16(units[k]) THEN Ok(PackUnits(units)) ELSE Err

(* TextFile.string_to_line_data: the decrypted bytes of a line, terminator
   appended. *)
string_to_line_data(line) ==
  Then(EncodeFrom(line, 0, <<>>), LAMBDA result : PackLine(result \o <<TERMINATOR_KEY>>))

---------------------------------------------------------------------------
(* TextFile: the container.  A TextFile object is the record               *)
(*   [data |-> self.data, sdo |-> self._cached_section_data_offset,        *)
(*    offs |-> self._cached_line_offsets]                                  *)
(* where offs is NoCache (None) or Cached(list of TextLine).  A TextLine is *)
(* [offset, length, flags].  A method that assigns returns [ok, tf]: tf is  *)
(* the object as the call leaves it, also when it raised (ok = FALSE).      *)

NoCache == [set |-> FALSE, val |-> <<>>]

Cached(v) == [set |-> TRUE, val |-> v]

(* A variant of TextLine whose flags are always 1. *)
TextLineFlagged(offset, length, flags) == [offset |-> offset, length |-> length, flags |-> 1]

TextLine(offset, length, flags) == [offset |-> offset, length |-> length, flags |-> flags]

Done(tf_) == [ok |-> TRUE, tf |-> tf_]

Raised(tf_) == [ok |-> FALSE, tf |-> tf_]

(* A lines list may hold None in place of a str; the model writes it as the
   one-element sequence <<-1>>, which is no string. *)
NoneText == <<-1>>

(* TextFile.set_empty_text: set to False by __init__, assigned nowhere else. *)
set_empty_text == FALSE

(* Header field getters (struct.unpack_from on self.data). *)
text_sections(tf_) == U16(tf_.data, 0)

line_count(tf_) == U16(tf_.data, 2)

total_length(tf_) == U32(tf_.data, 4)

initial_key(tf_) == U32(tf_.data, 8)

section_length(tf_) == U32(tf_.data, tf_.sdo)

(* A variant of the constructor without its last test (section_length
   against total_length). *)
TextFile_init_unchecked(data) ==
  IF ~TextConfig_ok(game) THEN Err
  ELSE IF ~CanRead(data, 8, 4) THEN Err
  ELSE IF U32(data, 8) # 0 THEN Err
  ELSE IF ~CanRead(data, 12, 4) THEN Err
  ELSE IF U32(data, 12) + U32(data, 4) # Len(data) \/ U16(data, 0) # 1 THEN Err
  ELSE Ok([data |-> data, sdo |-> U32(data, 12), offs |-> NoCache])

(* TextFile.__init__(data, config, remap_characters): the object, or the
   exception.  config is TextConfig(game); without a config the constructor
   calls TextConfig("default").  The first read of section_data_offset
   caches it. *)
TextFile_init(data) ==
  IF ~TextConfig_ok(game) THEN Err
  ELSE IF ~CanRead(data, 8, 4) THEN Err
  ELSE IF U32(data, 8) # 0 THEN Err
  ELSE IF ~CanRead(data, 12, 4) THEN Err
  ELSE LET tf_ == [data |-> data, sdo |-> U32(data, 12), offs |-> NoCache]
       IN  IF tf_.sdo + total_length(tf_) # Len(data) \/ text_sections(tf_) # 1 THEN Err
           ELSE IF ~CanRead(data, tf_.sdo, 4) THEN Err
           ELSE IF section_length(tf_) # total_length(tf_) THEN Err
           ELSE Ok(tf_)

RECURSIVE ReadEntries(_, _, _)
(* The loop of the line_offsets getter: entries i .. n-1, unpacked '<iHH'. *)
ReadEntries(tf_, i, n) ==
  IF i >= n THEN Ok(<<>>)
  ELSE LET at == tf_.sdo + 4 + i * 8
       IN  IF ~CanRead(tf_.data, at, 8) THEN Err
           ELSE Then(ReadEntries(tf_, i + 1, n), LAMBDA rest :
                  Ok(<<TextLine(I32(tf_.data, at), U16(tf_.data, at + 4), U16(tf_.data, at + 6))>> \o rest))

(* TextFile.line_offsets (getter): the cached list, else the entries parsed
   from the buffer. *)
line_offsets(tf_) == IF tf_.offs.set THEN Ok(tf_.offs.val) ELSE ReadEntries(tf_, 0, line_count(tf_))

(* The object after the line_offsets getter returned offsets: the list is
   cached. *)
AfterLineOffsets(tf_, offsets) == [tf_ EXCEPT !.offs = Cached(offsets)]

RECURSIVE WriteEntries(_, _, _, _)
(* The loop of the line_offsets setter from entry i on: pack_into '<iHH'.
   It raises on a value outside its format's range or past the buffer; the
   entries written before stay written. *)
WriteEntries(data, base, value, i) ==
  IF i > Len(value) THEN [ok |-> TRUE, data |-> data]
  ELSE LET line == value[i]
           at   == base + (i - 1) * 8
       IN  IF ~(IsI32(line.offset) /\ IsU16(line.length) /\ IsU16(line.flags)) \/ ~CanRead(data, at, 8)
           THEN [ok |-> FALSE, data |-> data]
           ELSE WriteEntries(Poke(data, at, PI32(line.offset) \o P16(line.length) \o P16(line.flags)), base, value, i + 1)

(* A variant of the line_offsets setter that keeps the list and leaves the
   buffer alone. *)
OffsetsCachedOnly(tf_, value) == Done([tf_ EXCEPT !.offs = Cached(value)])

(* TextFile.line_offsets (setter) *)
set_line_offsets(tf_, value) ==
  With(WriteEntries(tf_.data, tf_.sdo + 4, value, 1), LAMBDA w :
    IF w.ok THEN Done([tf_ EXCEPT !.data = w.data, !.offs = Cached(value)])
    ELSE Raised([tf_ EXCEPT !.data = w.data]))

RECURSIVE DecodeRuns(_, _, _, _)
(* The loop of the lines getter over the entries from index i on. *)
DecodeRuns(tf_, offsets, i, key) ==
  IF i > Len(offsets) THEN Ok(<<>>)
  ELSE LET line      == offsets[i]
           start     == tf_.sdo + line.offset
           end       == start + line.length * 2
           encrypted == PySlice(tf_.data, start, end)
       IN  Then(encrypt_line_data(encrypted, key), LAMBDA decrypted :
             Then(parse_line_string(decrypted), LAMBDA text :
               Then(DecodeRuns(tf_, offsets, i + 1, NextLineKeyOnRead(key)), LAMBDA rest :
                 Ok(<<text>> \o rest))))

(* TextFile.lines (getter) *)
get_lines(tf_) ==
  Then(line_offsets(tf_), LAMBDA offsets : DecodeRuns(tf_, offsets, 1, BASE_KEY))

(* TextFile.flags (getter) *)
get_flags(tf_) ==
  Then(line_offsets(tf_), LAMBDA offsets : Ok([k \in 1 .. Len(offsets) |-> offsets[k].flags]))

(* A variant of the flags setter that leaves the entries as they are. *)
FlagsNotStored(tf_, value) == Done(tf_)

(* TextFile.flags (setter): offsets[i]._replace(flags=flag) for each flag
   given; IndexError when there are more flags than entries. *)
set_flags(tf_, value) ==
  With(line_offsets(tf_), LAMBDA offsets :
    IF ~offsets.ok THEN Raised(tf_)
    ELSE IF Len(value) > Len(offsets.val) THEN Raised(AfterLineOffsets(tf_, offsets.val))
    ELSE set_line_offsets(AfterLineOffsets(tf_, offsets.val),
                          [k \in 1 .. Len(value) |-> [offsets.val[k] EXCEPT !.flags = value[k]]]))

(* A variant of the first run's offset that forgets the SectionLength word. *)
EntryTableOnly(n) == n * 8

(* bytes_used = 4 + len(value) * 8: SectionLength + LineOffsets *)
EntryTableEnd(n) == 4 + n * 8

(* A variant of the layout step without padding. *)
Unaligned(bytes_used) == bytes_used

(* if bytes_used % 4 == 2: bytes_used += 2 *)
Align4(bytes_used) == IF bytes_used % 4 = 2 THEN bytes_used + 2 ELSE bytes_used

(* A layout that puts every run at the same offset and counts one run. *)
RunsOverlaid(value, i, bytes_used) ==
  [lines |-> [k \in 1 .. Len(value) |-> TextLine(bytes_used, Len(value[k]) \div 2, 0)],
   bytes_used |-> bytes_used + (IF value = <<>> THEN 0 ELSE Len(value[1]))]

RECURSIVE PlaceLines(_, _, _)
(* The offsets loop of the line_data setter: the entries of value[i..] when
   bytes_used bytes are taken, and the final bytes_used. *)
PlaceLines(value, i, bytes_used) ==
  IF i > Len(value) THEN [lines |-> <<>>, bytes_used |-> bytes_used]
  ELSE With(PlaceLines(value, i + 1, Align4(bytes_used + Len(value[i]))), LAMBDA rest :
         [lines |-> <<TextLine(bytes_used, Len(value[i]) \div 2, 0)>> \o rest.lines,
          bytes_used |-> rest.bytes_used])

RECURSIVE CopyRuns(_, _, _, _, _)
(* The copy loop of the line_data setter: data[start:start+len(v)] = v. *)
CopyRuns(data, sdo, lines_, value, i) ==
  IF i > Len(value) THEN data
  ELSE CopyRuns(Poke(data, sdo + lines_[i].offset, value[i]), sdo, lines_, value, i + 1)

Zeros(n) == [k \in 1 .. n |-> 0]

(* TextFile.line_data (setter): lays the encrypted runs out behind the entry
   table and rewrites the length fields, the line count and the entries. *)
set_line_data(tf_, value) ==
  With(PlaceLines(value, 1, EntryTableEnd(Len(value))), LAMBDA placed :
    LET bytes_used == placed.bytes_used
        sdo        == tf_.sdo
        resized    == Slice(tf_.data, 0, sdo) \o Zeros(bytes_used)
        lengths    == Poke(Poke(resized, sdo, P32(bytes_used)), 4, P32(bytes_used))
        counted    == Poke(lengths, 2, P16(Len(value)))
        entered    == set_line_offsets([tf_ EXCEPT !.data = counted], placed.lines)
    IN  IF ~CanRead(resized, sdo, 4) \/ ~CanRead(resized, 4, 4) THEN Raised([tf_ EXCEPT !.data = resized])
        ELSE IF ~IsU16(Len(value)) THEN Raised([tf_ EXCEPT !.data = lengths])
        ELSE IF ~entered.ok THEN entered
        ELSE Done([entered.tf EXCEPT !.data = CopyRuns(entered.tf.data, sdo, placed.lines, value, 1)]))

RECURSIVE ConvertFrom(_, _, _)
(* The loop of convert_lines_to_data from line i (1-based here) on. *)
ConvertFrom(lines_, i, key) ==
  IF i > Len(lines_) THEN Ok(<<>>)
  ELSE With(IF lines_[i] = NoneText THEN <<>> ELSE Strip(lines_[i]), LAMBDA stripped :
         LET text == IF stripped = <<>> /\ set_empty_text
                     THEN <<91, 126, 32>> \o Dec(i - 1) \o <<93>>
                     ELSE stripped
         IN  Then(string_to_line_data(text), LAMBDA decrypted :
               Then(encrypt_line_data(decrypted, key), LAMBDA encrypted :
                 Then(ConvertFrom(lines_, i + 1, NextLineKey(key)), LAMBDA rest :
                   Ok(<<encrypted>> \o rest)))))

(* TextFile.convert_lines_to_data *)
convert_lines_to_data(lines_) == ConvertFrom(lines_, 1, BASE_KEY)

(* A variant of the lines setter that empties the container when a line
   cannot be converted. *)
LinesClearedOnFailure(tf_, value) ==
  With(convert_lines_to_data(value), LAMBDA line_data :
    IF ~line_data.ok THEN Raised(set_line_data(tf_, <<>>).tf) ELSE set_line_data(tf_, line_data.val))

(* TextFile.lines (setter) *)
set_lines(tf_, value) ==
  With(convert_lines_to_data(value), LAMBDA line_data :
    IF ~line_data.ok THEN Raised(tf_) ELSE set_line_data(tf_, line_data.val))

(* TextFile.from_lines: a fresh empty container, then lines, then flags. *)
from_lines(lines_, flags_) ==
  Then(TextFile_init(EMPTY_TEXT_FILE), LAMBDA instance :
    With(set_lines(instance, lines_), LAMBDA with_lines :
      IF ~with_lines.ok THEN Err
      ELSE With(set_flags(with_lines.tf, flags_), LAMBDA with_flags :
             IF ~with_flags.ok THEN Err ELSE Ok(with_flags.tf))))

(* TextFile.get_encrypted_line: IndexError past the last entry. *)
get_encrypted_line(tf_, index) ==
  Then(line_offsets(tf_), LAMBDA offsets :
    IF index >= Len(offsets) THEN Err
    ELSE LET line  == offsets[index + 1]
             start == tf_.sdo + line.offset
         IN  Ok(PySlice(tf_.data, start, start + line.length * 2)))

(* TextFile.get_line *)
get_line(tf_, index) ==
  Then(get_encrypted_line(tf_, index), LAMBDA encrypted :
    Then(encrypt_line_data(encrypted, get_line_key(index)), LAMBDA decrypted :
      parse_line_string(decrypted)))

---------------------------------------------------------------------------
(* utilities.py                                                             *)

(* get_strings(data, config, remap_characters): the lines, or None when
   anything raised. *)
get_strings(data) ==
  With(TextFile_init(data), LAMBDA made :
    IF ~made.ok THEN None
    ELSE With(get_lines(made.val), LAMBDA result : IF result.ok THEN result ELSE None))

(* get_bytes(lines, flags, config, remap_characters): bytes of the container
   from_lines built; an exception of from_lines propagates. *)
get_bytes(lines_, flags_) == Then(from_lines(lines_, flags_), LAMBDA instance : Ok(instance.data))

---------------------------------------------------------------------------
(* Inputs of the runs.                                                      *)

(* Bounds. *)
MaxLines == 2

MaxCipherUnits == 2

(* 0 .. MaxLines lines, each drawn from pool. *)
RECURSIVE ListsUpTo(_, _)
ListsUpTo(pool, n) ==
  IF n = 0 THEN {<<>>}
  ELSE LET shorter == ListsUpTo(pool, n - 1)
       IN  shorter \cup {Append(l, x) : l \in {s \in shorter : Len(s) = n - 1}, x \in pool}

(* The flags of n lines: consecutive 16-bit values from seed on. *)
FlagSeeds == {0, 65535}

FlagsFrom(seed, n) == [k \in 1 .. n |-> (seed + k - 1) % 65536]

Games == {"LGPE", "SWSH", "LA", "SV", "LZA"}

(* Lines handed to the encoder: empty, None, plain text of one and two
   characters, text in white space, U+0100 (a code LGPE names TRNAME),
   a private-use character the remap table knows at the end of a line,
   an escape, a wait token, a ruby token, and an unterminated token. *)
WritePool ==
  { <<>>, NoneText, <<65>>, <<65, 66>>, <<32, 65, 32>>, <<256>>, <<65, 57471>>,
    <<92, 110>>, <<91, 87, 65, 73, 84, 32, 51, 48, 93>>, <<123, 97, 124, 120, 125>>, <<91>> }

(* Plaintext of the lines of a container some other tool wrote, as code
   units without the terminator: plain text, text with a leading and with a
   trailing space unit, a line feed, a wait token, a unit LGPE names, a
   private-use unit of the remap table. *)
ForeignPool ==
  { <<>>, <<65>>, <<32, 65>>, <<65, 32>>, <<65, 10, 66>>, <<16, 2, 48642, 30>>, <<256>>, <<65, 57471>> }

(* Plaintext lines of the containers whose header and entries are then
   damaged; the last is a variable marker with nothing after it, which
   parse_variable_string cannot read. *)
ReadPool == { <<>>, <<65>>, <<65, 66>>, <<16, 2, 48642, 30>>, <<16>> }

(* A container written by another tool: the given plaintext lines, each
   terminated and enciphered under its line key, laid out by the line_data
   setter of an empty TextFile, then the flags. *)
RECURSIVE EncipherFrom(_, _, _)
EncipherFrom(unit_lines, i, key) ==
  IF i > Len(unit_lines) THEN <<>>
  ELSE <<encrypt_line_data(PackUnits(unit_lines[i] \o <<TERMINATOR_KEY>>), key).val>>
       \o EncipherFrom(unit_lines, i + 1, NextLineKey(key))

ForeignContainer(unit_lines, flags_) ==
  set_flags(set_line_data(TextFile_init(EMPTY_TEXT_FILE).val, EncipherFrom(unit_lines, 1, BASE_KEY)).tf, flags_).tf.data

(* TextFile(data).flags *)
FlagsOf(data) == get_flags(TextFile_init(data).val).val

---------------------------------------------------------------------------
(* The line cipher on its own: encrypt_line_data applied twice.             *)

CipherBytes == {0, 1, 137, 255}

CipherKeys == {0, 1, 31881, 42508, 65535}

RECURSIVE ByteSeqs(_)
(* Buffers of n 16-bit words over CipherBytes. *)
ByteSeqs(n) ==
  IF n = 0 THEN {<<>>}
  ELSE {s \o <<a, b>> : s \in ByteSeqs(n - 1), a \in CipherBytes, b \in CipherBytes}

(* The caller's buffer after encrypt_line_data returned: the method works on
   bytearray(data), a copy. *)
ArgumentAfterEncrypt(data, key) == data

InitCipher ==
  /\ game = "LGPE" /\ remap = FALSE
  /\ pc = "plain"
  /\ \E n \in 0 .. MaxCipherUnits : \E b \in ByteSeqs(n) : \E k \in CipherKeys :
       input = [data |-> b, key |-> k, held |-> b]
  /\ buf = Unused /\ tf = Unused /\ lines = Unused /\ one = Unused
  /\ buf2 = Unused /\ lines2 = Unused

(* encrypt_line_data(b, k) *)
EncryptOnce ==
  /\ pc = "plain"
  /\ buf' = encrypt_line_data(input.held, input.key)
  /\ input' = [input EXCEPT !.held = ArgumentAfterEncrypt(input.held, input.key)]
  /\ pc' = "once"
  /\ UNCHANGED <<game, remap, tf, lines, one, buf2, lines2>>

(* encrypt_line_data(encrypt_line_data(b, k), k) *)
EncryptTwice ==
  /\ pc = "once"
  /\ buf.ok
  /\ buf2' = encrypt_line_data(buf.val, input.key)
  /\ pc' = "twice"
  /\ UNCHANGED <<game, remap, input, buf, tf, lines, one, lines2>>

NextCipher == EncryptOnce \/ EncryptTwice

SpecCipher == InitCipher /\ [][NextCipher]_vars

---------------------------------------------------------------------------
(* Write path first: get_bytes, then get_strings, then get_bytes again.     *)

InitWrite ==
  /\ game \in Games /\ remap \in BOOLEAN
  /\ pc = "start"
  /\ \E l \in ListsUpTo(WritePool, MaxLines) : \E seed \in FlagSeeds :
       input = [lines |-> l, flags |-> FlagsFrom(seed, Len(l))]
  /\ buf = Unused /\ tf = Unused /\ lines = Unused /\ one = Unused
  /\ buf2 = Unused /\ lines2 = Unused

(* B = get_bytes(L, F, config, remap) *)
Encode ==
  /\ pc = "start"
  /\ buf' = get_bytes(input.lines, input.flags)
  /\ pc' = "encoded"
  /\ UNCHANGED <<game, remap, input, tf, lines, one, buf2, lines2>>

(* get_strings(B, config, remap) *)
Decode ==
  /\ pc = "encoded"
  /\ buf.ok
  /\ lines' = get_strings(buf.val)
  /\ pc' = "decoded"
  /\ UNCHANGED <<game, remap, input, buf, tf, one, buf2, lines2>>

(* get_bytes(decoded lines, flags of B, config, remap) *)
Reencode ==
  /\ pc = "decoded"
  /\ lines.ok
  /\ buf2' = get_bytes(lines.val, FlagsOf(buf.val))
  /\ pc' = "reencoded"
  /\ UNCHANGED <<game, remap, input, buf, tf, lines, one, lines2>>

(* get_strings of the re-encoded buffer *)
Redecode ==
  /\ pc = "reencoded"
  /\ buf2.ok
  /\ lines2' = get_strings(buf2.val)
  /\ pc' = "redecoded"
  /\ UNCHANGED <<game, remap, input, buf, tf, lines, one, buf2>>

NextWrite == Encode \/ Decode \/ Reencode

SpecWrite == InitWrite /\ [][NextWrite]_vars

---------------------------------------------------------------------------
(* Read path first: a container written elsewhere is decoded, re-encoded    *)
(* and decoded again.                                                       *)

RoundTripGames == {"LGPE", "SWSH"}

InitRoundTrip ==
  /\ game \in RoundTripGames /\ remap \in BOOLEAN
  /\ pc = "encoded"
  /\ \E u \in ListsUpTo(ForeignPool, MaxLines) : \E seed \in FlagSeeds :
       /\ input = [units |-> u, flags |-> FlagsFrom(seed, Len(u))]
       /\ buf = Ok(ForeignContainer(u, FlagsFrom(seed, Len(u))))
  /\ tf = Unused /\ lines = Unused /\ one = Unused
  /\ buf2 = Unused /\ lines2 = Unused

NextRoundTrip == Decode \/ Reencode \/ Redecode

SpecRoundTrip == InitRoundTrip /\ [][NextRoundTrip]_vars


---------------------------------------------------------------------------
(* Read path on damaged input: a container written elsewhere has one header *)
(* field, its length or one line entry changed, and is then opened and      *)
(* read.                                                                    *)

ReadGames == {"LGPE", "SWSH"}

(* The fields a damage overwrites, and the values written (all below 2^31). *)
HeaderDamage ==
  { [field |-> "text_sections", value |-> 0], [field |-> "text_sections", value |-> 2],
    [field |-> "line_count", value |-> 0], [field |-> "line_count", value |-> 3],
    [field |-> "total_length", value |-> 0], [field |-> "total_length", value |-> 64],
    [field |-> "initial_key", value |-> 1],
    [field |-> "section_data_offset", value |-> 0], [field |-> "section_data_offset", value |-> 12],
    [field |-> "section_data_offset", value |-> 20],
    [field |-> "section_length", value |-> 0], [field |-> "section_length", value |-> 64],
    [field |-> "file_length", value |-> -2], [field |-> "file_length", value |-> 2] }

EntryOffsets == {-4, 0, 2, 12, 1000}

EntryLengths == {0, 1, 3, 1000}

(* The buffer with the damage d applied.  section_length and the entries are
   addressed through the offset the intact header holds. *)
Damaged(data, d) ==
  CASE d.field = "text_sections"       -> Poke(data, 0, P16(d.value))
    [] d.field = "line_count"          -> Poke(data, 2, P16(d.value))
    [] d.field = "total_length"        -> Poke(data, 4, P32(d.value))
    [] d.field = "initial_key"         -> Poke(data, 8, P32(d.value))
    [] d.field = "section_data_offset" -> Poke(data, 12, P32(d.value))
    [] d.field = "section_length"      -> Poke(data, U32(data, 12), P32(d.value))
    [] d.field = "file_length"         -> IF d.value < 0 THEN Slice(data, 0, Len(data) + d.value)
                                          ELSE data \o Zeros(d.value)
    [] d.field = "entry_offset"        -> Poke(data, U32(data, 12) + 4 + 8 * d.entry, PI32(d.value))
    [] d.field = "entry_length"        -> Poke(data, U32(data, 12) + 8 + 8 * d.entry, P16(d.value))

InitRead ==
  /\ game \in ReadGames /\ remap = FALSE
  /\ pc = "written"
  /\ \E u \in ListsUpTo(ReadPool, MaxLines) : \E seed \in FlagSeeds :
       /\ input = [units |-> u, flags |-> FlagsFrom(seed, Len(u)), damage |-> <<>>]
       /\ buf = Ok(ForeignContainer(u, FlagsFrom(seed, Len(u))))
  /\ tf = Unused /\ lines = Unused /\ one = Unused
  /\ buf2 = Unused /\ lines2 = Unused

(* The file is changed before the program sees it. *)
Damage ==
  /\ pc = "written"
  /\ \E d \in HeaderDamage
            \cup [field : {"entry_offset"}, value : EntryOffsets, entry : 0 .. Len(input.units) - 1]
            \cup [field : {"entry_length"}, value : EntryLengths, entry : 0 .. Len(input.units) - 1] :
       /\ buf' = Ok(Damaged(buf.val, d))
       /\ input' = [input EXCEPT !.damage = d]
  /\ pc' = "damaged"
  /\ UNCHANGED <<game, remap, tf, lines, one, buf2, lines2>>

(* TextFile(data, config, remap_characters) *)
Construct ==
  /\ pc \in {"written", "damaged"}
  /\ tf' = TextFile_init(buf.val)
  /\ pc' = "constructed"
  /\ UNCHANGED <<game, remap, input, buf, lines, one, buf2, lines2>>

(* get_strings(data, config, remap_characters) *)
GetStrings ==
  /\ pc \in {"written", "damaged"}
  /\ lines' = get_strings(buf.val)
  /\ pc' = "strings"
  /\ UNCHANGED <<game, remap, input, buf, tf, one, buf2, lines2>>

(* text_file.lines: the strings or the exception; the entries read on the
   way stay cached in the object. *)
GetLines ==
  /\ pc = "constructed"
  /\ tf.ok
  /\ lines' = get_lines(tf.val)
  /\ tf' = With(line_offsets(tf.val), LAMBDA offsets :
             IF offsets.ok THEN Ok(AfterLineOffsets(tf.val, offsets.val)) ELSE tf)
  /\ pc' = "lines"
  /\ UNCHANGED <<game, remap, input, buf, one, buf2, lines2>>

(* text_file.get_line(index), 0 <= index < line_count *)
GetLine ==
  /\ pc = "lines"
  /\ \E index \in 0 .. MaxLines :
       /\ index < line_count(tf.val)
       /\ one' = [index |-> index, text |-> get_line(tf.val, index)]
  /\ pc' = "line"
  /\ UNCHANGED <<game, remap, input, buf, tf, lines, buf2, lines2>>

NextRead == Damage \/ Construct \/ GetStrings \/ GetLines \/ GetLine

SpecRead == InitRead /\ [][NextRead]_vars
---------------------------------------------------------------------------
(* One line through the line encoder and decoder.                           *)

(* Bound: the number of forms a line is written from. *)
MaxForms == 2

(* A form of the string grammar as a caller writes it: its text, and the
   code units the grammar assigns to it (none for text the grammar has no
   units for). *)
Form(kind, text, units) == [kind |-> kind, text |-> text, units |-> units]

(* Characters with no meaning to the grammar: 'A', '1', and the run '100'. *)
PlainForms ==
  {Form("plain", <<c>>, <<c>>) : c \in {65, 49}} \cup {Form("plain", <<49, 48, 48>>, <<49, 48, 48>>)}

(* Arguments of the wait and line-reference tokens. *)
TokenArgs == {0, 30, 65535}

(* \n \\ \[ \{ \r \c, [WAIT D] and [~ D] *)
EscapeForms ==
  { Form("escape", <<92, 110>>, <<10>>),
    Form("escape", <<92, 92>>,  <<92>>),
    Form("escape", <<92, 91>>,  <<91>>),
    Form("escape", <<92, 123>>, <<123>>),
    Form("escape", <<92, 114>>, <<VARIABLE_KEY, 1, RETURN_TEXT_KEY>>),
    Form("escape", <<92, 99>>,  <<VARIABLE_KEY, 1, CLEAR_TEXT_KEY>>) }
  \cup {Form("escape", <<91, 87, 65, 73, 84, 32>> \o Dec(d) \o <<93>>,
             <<VARIABLE_KEY, 2, WAIT_TEXT_KEY, d>>) : d \in TokenArgs}
  \cup {Form("escape", <<91, 126, 32>> \o Dec(d) \o <<93>>,
             <<VARIABLE_KEY, 2, NULL_TEXT_KEY, d>>) : d \in TokenArgs}

(* '{B|R}' and '{B1|R|B2}' of plain characters *)
RubyForm(base1, ruby, base2) ==
  Form("ruby",
       <<123>> \o base1 \o <<124>> \o ruby
         \o (IF base2 = base1 THEN <<>> ELSE <<124>> \o base2) \o <<125>>,
       <<VARIABLE_KEY, 3 + Len(base1) + Len(ruby), RUBY_TEXT_KEY, Len(base1), Len(ruby)>>
         \o base1 \o ruby \o base2)

(* {ab|xy} {ab|xy|cd} {a|x|b} {|x} {a|} *)
RubyForms ==
  { RubyForm(<<97, 98>>, <<120, 121>>, <<97, 98>>),
    RubyForm(<<97, 98>>, <<120, 121>>, <<99, 100>>),
    RubyForm(<<97>>, <<120>>, <<98>>),
    RubyForm(<<>>, <<120>>, <<>>),
    RubyForm(<<97>>, <<>>, <<97>>) }

(* The characters the table of game g holds as names, each with its code. *)
LiteralForms(g) ==
  With(get_variables(g), LAMBDA table :
    {Form("literal", table[k].name, <<table[k].code>>) :
       k \in {n \in DOMAIN table : Len(table[n].name) = 1}})

(* Identifiers of variable tokens: 0xFF00, 0x0100, 0xE300 and 0x1408, which
   some tables name, 0xABCD, which none does, and the wait and return
   identifiers 0xBE02 and 0xBE00. *)
VarCodes == {65280, 256, 58112, 5128, 43981, 48642, 48640}

(* Argument lists of variable tokens. *)
VarArgs == {<<>>, <<1>>, <<0, 65535>>}

(* '[VAR N]' and '[VAR N(H_1,...,H_k)]': N the name the table of game g
   holds for the code, else its 4-digit hex form. *)
VarForm(g, code, args) ==
  Form("var",
       <<91, 86, 65, 82, 32>> \o DictGet(get_variables(g), code, Hex4(code))
         \o (IF args = <<>> THEN <<>>
             ELSE <<40>> \o JoinWith([k \in DOMAIN args |-> Hex4(args[k])], 44) \o <<41>>)
         \o <<93>>,
       <<VARIABLE_KEY, 1 + Len(args), code>> \o args)

VarForms(g) == {VarForm(g, code, args) : code \in VarCodes, args \in VarArgs}

(* Text the grammar has no units for: \q, a lone backslash, a lone '[', a
   lone '{', [WAIT], [FOO 1], [VAR XYZ], {a}, {a|b|c|d}, {ab|x|c}, and the
   ruby texts {a\q|x} and {[|x}. *)
MalformedForms ==
  {Form("malformed", text, <<>>) : text \in
     { <<92, 113>>, <<92>>, <<91>>, <<123>>,
       <<91, 87, 65, 73, 84, 93>>,
       <<91, 70, 79, 79, 32, 49, 93>>,
       <<91, 86, 65, 82, 32, 88, 89, 90, 93>>,
       <<123, 97, 125>>,
       <<123, 97, 124, 98, 124, 99, 124, 100, 125>>,
       <<123, 97, 98, 124, 120, 124, 99, 125>>,
       <<123, 97, 92, 113, 124, 120, 125>>,
       <<123, 91, 124, 120, 125>> }}

(* Text holding a value above 0xFFFF: the character U+1F600 alone and in a
   ruby base, [WAIT 65536], [~ 70000] and [VAR COLOR(10000)]. *)
WideForms ==
  {Form("wide", text, <<>>) : text \in
     { <<128512>>,
       <<123, 128512, 124, 120, 125>>,
       <<91, 87, 65, 73, 84, 32>> \o Dec(65536) \o <<93>>,
       <<91, 126, 32>> \o Dec(70000) \o <<93>>,
       <<91, 86, 65, 82, 32, 67, 79, 76, 79, 82, 40, 49, 48, 48, 48, 48, 41, 93>> }}

(* Every form a line of game g may be written from. *)
LineForms(g) ==
  PlainForms \cup EscapeForms \cup RubyForms \cup LiteralForms(g) \cup VarForms(g)
    \cup MalformedForms \cup WideForms

(* string_to_line_data is handed a line made of 0 .. MaxForms forms. *)
InitLine ==
  /\ game \in Games /\ remap \in BOOLEAN
  /\ pc = "text"
  /\ \E f \in ListsUpTo(LineForms(game), MaxForms) :
       input = [forms |-> f, text |-> Concat([k \in DOMAIN f |-> f[k].text])]
  /\ buf = Unused /\ tf = Unused /\ lines = Unused /\ one = Unused
  /\ buf2 = Unused /\ lines2 = Unused

(* text_file.string_to_line_data(line) *)
EncodeLine ==
  /\ pc = "text"
  /\ buf' = string_to_line_data(input.text)
  /\ pc' = "units"
  /\ UNCHANGED <<game, remap, input, tf, lines, one, buf2, lines2>>

(* text_file.parse_line_string(data) on the bytes the encoder returned *)
DecodeLine ==
  /\ pc = "units"
  /\ buf.ok
  /\ lines' = parse_line_string(buf.val)
  /\ pc' = "parsed"
  /\ UNCHANGED <<game, remap, input, buf, tf, one, buf2, lines2>>

(* get_bytes([line], [0], config, remap_characters) *)
WriteLine ==
  /\ pc = "text"
  /\ buf2' = get_bytes(<<input.text>>, <<0>>)
  /\ pc' = "written"
  /\ UNCHANGED <<game, remap, input, buf, tf, lines, one, lines2>>

NextLine == EncodeLine \/ DecodeLine \/ WriteLine

SpecLine == InitLine /\ [][NextLine]_vars

---------------------------------------------------------------------------
(* The game selector.                                                       *)

(* Identifiers a caller hands to TextConfig: the five of GAME_VARIABLES, the
   identifier TextFile itself uses, and others. *)
Selectors == Games \cup {"default", "lgpe", "LGPE ", "", "BDSP"}

(* TextConfig(game_version): ValueError when the table is empty. *)
TextConfig_init(game_version) ==
  IF get_variables(game_version) = <<>> THEN Err ELSE Ok(game_version)

(* The container of the one line 'A' with flags 0. *)
OneLineFile ==
  << 1, 0, 1, 0, 16, 0, 0, 0, 0, 0, 0, 0, 16, 0, 0, 0,
     16, 0, 0, 0, 12, 0, 0, 0, 2, 0, 0, 0, 200, 124, 75, 228 >>

(* A caller with lines ('', 'A', 'B') and flags 0 to write and a container to
   read, who either builds a TextConfig first or passes no config at all. *)
InitConfig ==
  /\ \E configured \in BOOLEAN : \E l \in ListsUpTo({<<>>, <<65>>, <<66>>}, MaxLines) :
     \E data \in {EMPTY_TEXT_FILE, OneLineFile} :
       /\ game \in IF configured THEN Selectors ELSE {"default"}
       /\ input = [configured |-> configured, lines |-> l, flags |-> Zeros(Len(l)),
                   data |-> data]
  /\ remap \in BOOLEAN
  /\ pc = "start"
  /\ buf = Unused /\ tf = Unused /\ lines = Unused /\ one = Unused
  /\ buf2 = Unused /\ lines2 = Unused

(* config = TextConfig(game) *)
MakeConfig ==
  /\ pc = "start" /\ input.configured
  /\ one' = TextConfig_init(game)
  /\ pc' = "config"
  /\ UNCHANGED <<game, remap, input, buf, tf, lines, buf2, lines2>>

(* The calls below are made with the config built, or with config=None. *)
ConfigAtHand == (pc = "config" /\ one.ok) \/ (pc = "start" /\ ~input.configured)

(* TextFile(data, config, remap_characters) *)
ConstructWith ==
  /\ ConfigAtHand
  /\ tf' = TextFile_init(input.data)
  /\ pc' = "constructed"
  /\ UNCHANGED <<game, remap, input, buf, lines, one, buf2, lines2>>

(* get_strings(data, config, remap_characters) *)
GetStringsWith ==
  /\ ConfigAtHand
  /\ lines' = get_strings(input.data)
  /\ pc' = "strings"
  /\ UNCHANGED <<game, remap, input, buf, tf, one, buf2, lines2>>

(* get_bytes(lines, flags, config, remap_characters) *)
GetBytesWith ==
  /\ ConfigAtHand
  /\ buf' = get_bytes(input.lines, input.flags)
  /\ pc' = "bytes"
  /\ UNCHANGED <<game, remap, input, tf, lines, one, buf2, lines2>>

NextConfig == MakeConfig \/ ConstructWith \/ GetStringsWith \/ GetBytesWith

SpecConfig == InitConfig /\ [][NextConfig]_vars

---------------------------------------------------------------------------
(* Code units through the decoder, then the encoder; codes through the name *)
(* lookups.                                                                 *)

(* Codes outside every table: the line feed and the backslash, 'A', 0x00FF,
   the pokedollar sign U+20BD, 0xABCD, the four private-use units the remap
   table knows, the reserved identifiers 0xBE00, 0xBE02 and 0xFF01, and
   0xFFFF. *)
OtherCodes ==
  {10, 92, 65, 255, 8381, 43981, 48640, 48642, 65281, 65535} \cup DOMAIN REMAP_CHAR_MAP

(* The codes handed to the decoder under game g: every key of its table, and
   the others. *)
CodePool(g) ==
  With(get_variables(g), LAMBDA table : {table[k].code : k \in DOMAIN table} \cup OtherCodes)

(* The plaintext of a line holding the unit alone, or a variable token of
   count 1 with the unit as its identifier, both terminated; or a buffer that
   ends inside a variable token: after the marker, after the count, or after
   the identifier of a token of count 2. *)
UnitsOfShape(shape, code) ==
  CASE shape = "plain"      -> <<code, TERMINATOR_KEY>>
    [] shape = "token"      -> <<VARIABLE_KEY, 1, code, TERMINATOR_KEY>>
    [] shape = "marker"     -> <<VARIABLE_KEY>>
    [] shape = "count"      -> <<VARIABLE_KEY, 2>>
    [] shape = "identifier" -> <<VARIABLE_KEY, 2, code>>

Shapes == {"plain", "token", "marker", "count", "identifier"}

InitUnits ==
  /\ game \in Games /\ remap \in BOOLEAN
  /\ pc = "data"
  /\ \E code \in CodePool(game) : \E shape \in Shapes :
       /\ input = [code |-> code, shape |-> shape]
       /\ buf = Ok(PackUnits(UnitsOfShape(shape, code)))
  /\ tf = Unused /\ lines = Unused /\ one = Unused
  /\ buf2 = Unused /\ lines2 = Unused

(* text_file.parse_line_string(data) *)
ParseUnits ==
  /\ pc = "data"
  /\ lines' = parse_line_string(buf.val)
  /\ pc' = "text"
  /\ UNCHANGED <<game, remap, input, buf, tf, one, buf2, lines2>>

(* text_file.string_to_line_data(text) on the text the decoder returned *)
EncodeText ==
  /\ pc = "text"
  /\ lines.ok
  /\ buf2' = string_to_line_data(lines.val)
  /\ pc' = "units"
  /\ UNCHANGED <<game, remap, input, buf, tf, lines, one, lines2>>

(* config.get_variable_string(code) *)
NameOfCode ==
  /\ pc = "data"
  /\ one' = [name |-> get_variable_string(input.code), number |-> Unused]
  /\ pc' = "named"
  /\ UNCHANGED <<game, remap, input, buf, tf, lines, buf2, lines2>>

(* config.get_variable_number(name) on the name just returned *)
NumberOfName ==
  /\ pc = "named"
  /\ one' = [one EXCEPT !.number = get_variable_number(one.name)]
  /\ pc' = "numbered"
  /\ UNCHANGED <<game, remap, input, buf, tf, lines, buf2, lines2>>

NextUnits == ParseUnits \/ EncodeText \/ NameOfCode \/ NumberOfName

SpecUnits == InitUnits /\ [][NextUnits]_vars
---------------------------------------------------------------------------
(* A TextFile object under assignments to its lines and flags.              *)

(* Bound: the number of assignments made to one object. *)
MaxAssigns == 2

AssignGames == {"LGPE"}

(* data with k zero bytes put between the header and the section, and
   section_data_offset raised by k. *)
Relocated(data, k) ==
  Slice(data, 0, 12) \o P32(U32(data, 12) + k) \o Slice(data, 16, U32(data, 12))
    \o Zeros(k) \o Slice(data, U32(data, 12), Len(data))

(* The container of the lines 'A' and 'AB' with flags 7 and 0xFFFF. *)
TwoLineFile == ForeignContainer(<<<<65>>, <<65, 66>>>>, <<7, 65535>>)

(* A container of one line whose entry gives the entry table itself as the
   run: offset 4, length 4 units.  The constructor accepts it. *)
OverlappingFile ==
  Damaged(Damaged(ForeignContainer(<<<<65>>>>, <<0>>),
                  [field |-> "entry_offset", value |-> 4, entry |-> 0]),
          [field |-> "entry_length", value |-> 4, entry |-> 0])

(* The two-line container with the length of its second entry set to 0. *)
ShortLineFile == Damaged(TwoLineFile, [field |-> "entry_length", value |-> 0, entry |-> 1])

(* The buffers an object is constructed from. *)
AssignFiles ==
  {EMPTY_TEXT_FILE, TwoLineFile, Relocated(TwoLineFile, 4), OverlappingFile, ShortLineFile}

(* A variant of the step between lines in the line_data getter: the
   addition get_line_key uses. *)
LineDataKeyAdded(key) == (key + ADVANCE_KEY) % 65536

(* key = ((key << 3) | (key >> 13)) & 0xFFFF, the step between lines in the
   line_data getter *)
LineDataKey(key) == RotateKey(key)

RECURSIVE DecryptRuns(_, _, _, _)
(* The loop of the line_data getter over the entries from index i on. *)
DecryptRuns(tf_, offsets, i, key) ==
  IF i > Len(offsets) THEN Ok(<<>>)
  ELSE LET line      == offsets[i]
           start     == tf_.sdo + line.offset
           end       == start + line.length * 2
           encrypted == PySlice(tf_.data, start, end)
       IN  Then(encrypt_line_data(encrypted, key), LAMBDA decrypted :
             Then(DecryptRuns(tf_, offsets, i + 1, LineDataKey(key)), LAMBDA rest :
               Ok(<<decrypted>> \o rest)))

(* TextFile.line_data (getter) *)
get_line_data(tf_) ==
  Then(line_offsets(tf_), LAMBDA offsets : DecryptRuns(tf_, offsets, 1, BASE_KEY))

(* Lines assigned: 'A', 'AB', and three that string_to_line_data rejects:
   '[' (unterminated token), '\q' (malformed escape) and the character
   U+10000 (outside 16 bits). *)
AssignPool == {<<65>>, <<65, 66>>, <<91>>, <<92, 113>>, <<65536>>}

(* Flag sequences assigned: 0 .. MaxLines + 1 values counted up from 1 or
   down from 0xFFFF. *)
FlagLists ==
  {FlagsFrom(1, n) : n \in 0 .. MaxLines + 1}
    \cup {[k \in 1 .. n |-> 65536 - k] : n \in 0 .. MaxLines + 1}

(* text_file = TextFile(data, config).  input records the buffer, the
   number of assignments made, the number of lines last assigned (-1 before
   the first) and whether every assignment so far succeeded, every flags
   assignment with exactly line_count values. *)
InitAssign ==
  /\ game \in AssignGames /\ remap = FALSE
  /\ pc = "object"
  /\ \E data \in AssignFiles :
       /\ input = [data |-> data, count |-> 0, assigned |-> -1, clean |-> TRUE]
       /\ tf = TextFile_init(data)
  /\ buf = Unused /\ lines = Unused /\ one = Unused
  /\ buf2 = Unused /\ lines2 = Unused

(* text_file.lines = value; the object is left as the setter left it, also
   when it raised. *)
AssignLines ==
  /\ pc = "object" /\ tf.ok /\ input.count < MaxAssigns
  /\ \E value \in ListsUpTo(AssignPool, MaxLines) :
       LET result == set_lines(tf.val, value)
       IN  /\ tf' = Ok(result.tf)
           /\ one' = [op |-> "lines", value |-> value, before |-> tf.val, ok |-> result.ok]
           /\ input' = [input EXCEPT !.count = @ + 1,
                                     !.assigned = IF result.ok THEN Len(value) ELSE @,
                                     !.clean = @ /\ result.ok]
  /\ UNCHANGED <<game, remap, pc, buf, lines, buf2, lines2>>

(* text_file.flags = value *)
AssignFlags ==
  /\ pc = "object" /\ tf.ok /\ input.count < MaxAssigns
  /\ \E value \in FlagLists :
       LET result == set_flags(tf.val, value)
       IN  /\ tf' = Ok(result.tf)
           /\ one' = [op |-> "flags", value |-> value, before |-> tf.val, ok |-> result.ok]
           /\ input' = [input EXCEPT !.count = @ + 1,
                                     !.clean = @ /\ result.ok /\ Len(value) = line_count(tf.val)]
  /\ UNCHANGED <<game, remap, pc, buf, lines, buf2, lines2>>

(* text_file.lines and text_file.flags read, then TextFile(bytes(
   text_file.data), config) constructed and read in the same way. *)
Reopen ==
  /\ pc = "object" /\ tf.ok
  /\ lines' = [lines |-> get_lines(tf.val), flags |-> get_flags(tf.val)]
  /\ lines2' = With(TextFile_init(tf.val.data), LAMBDA made :
                 [made  |-> made.ok,
                  lines |-> IF made.ok THEN get_lines(made.val) ELSE Err,
                  flags |-> IF made.ok THEN get_flags(made.val) ELSE Err])
  /\ pc' = "reopened"
  /\ UNCHANGED <<game, remap, input, buf, tf, one, buf2>>

(* TextFile.from_lines(lines, flags, config) *)
FromLines ==
  /\ pc = "object" /\ input.count = 0 /\ input.data = EMPTY_TEXT_FILE
  /\ \E value \in ListsUpTo(AssignPool, MaxLines) : \E flags_ \in FlagLists :
       /\ buf' = from_lines(value, flags_)
       /\ one' = [op |-> "from_lines", value |-> value, flags |-> flags_]
  /\ pc' = "built"
  /\ UNCHANGED <<game, remap, input, tf, lines, buf2, lines2>>

(* text_file.line_data read. *)
ReadLineData ==
  /\ pc = "object" /\ tf.ok
  /\ buf2' = get_line_data(tf.val)
  /\ pc' = "bulk"
  /\ UNCHANGED <<game, remap, input, buf, tf, lines, one, lines2>>

NextAssign == AssignLines \/ AssignFlags \/ Reopen \/ FromLines \/ ReadLineData

SpecAssign == InitAssign /\ [][NextAssign]_vars
---------------------------------------------------------------------------
(* tbl_handler.py and DatReader.process_file: the label sidecar joined to   *)
(* the lines of a container.                                                *)

(* TblHandler.MAGIC = 0x42544841 *)
MAGIC == 1112819777

(* bytes.decode("cp1252") on the bytes 0x80 .. 0x9F that the code page
   defines; 0x81, 0x8D, 0x8F, 0x90 and 0x9D are undefined. *)
CP1252_HIGH ==
    (128 :> 8364) @@ (130 :> 8218) @@ (131 :> 402) @@ (132 :> 8222) @@
    (133 :> 8230) @@ (134 :> 8224) @@ (135 :> 8225) @@ (136 :> 710) @@
    (137 :> 8240) @@ (138 :> 352) @@ (139 :> 8249) @@ (140 :> 338) @@ (142
    :> 381) @@ (145 :> 8216) @@ (146 :> 8217) @@ (147 :> 8220) @@ (148 :>
    8221) @@ (149 :> 8226) @@ (150 :> 8211) @@ (151 :> 8212) @@ (152 :>
    732) @@ (153 :> 8482) @@ (154 :> 353) @@ (155 :> 8250) @@ (156 :> 339)
    @@ (158 :> 382) @@ (159 :> 376)

RECURSIVE DecodeCp1252(_)
(* raw_name.decode(self.ENCODING): UnicodeDecodeError on an undefined byte. *)
DecodeCp1252(raw) ==
  IF raw = <<>> THEN Ok(<<>>)
  ELSE LET b == Head(raw)
       IN  IF b >= 128 /\ b < 160 /\ b \notin DOMAIN CP1252_HIGH THEN Err
           ELSE Then(DecodeCp1252(Tail(raw)), LAMBDA rest :
                  Ok(<<IF b \in DOMAIN CP1252_HIGH THEN CP1252_HIGH[b] ELSE b>> \o rest))

RECURSIVE ReadLabels(_, _, _)
(* The loop of _read_entries with n entries left and the file position at
   pos: file.read returns what is left of the file, struct.unpack raises on
   fewer bytes than its format.  The hash is kept as its 8 bytes. *)
ReadLabels(bytes, pos, n) ==
  IF n = 0 THEN Ok(<<>>)
  ELSE IF ~CanRead(bytes, pos, 8) \/ ~CanRead(bytes, pos + 8, 2) THEN Err
  ELSE LET name_len == U16(bytes, pos + 8)
           raw_name == RStripSet(Slice(bytes, pos + 10, pos + 10 + name_len), {0})
       IN  Then(DecodeCp1252(raw_name), LAMBDA name :
             Then(ReadLabels(bytes, Min(pos + 10 + name_len, Len(bytes)), n - 1), LAMBDA rest :
               Ok(<<[id |-> name, hash |-> Slice(bytes, pos, pos + 8)]>> \o rest)))

(* TblHandler._validate_header: True when it returns, False when it raises. *)
_validate_header(bytes) == CanRead(bytes, 0, 4) /\ U32(bytes, 0) = MAGIC

(* TblHandler._read_entries *)
_read_entries(bytes) ==
  IF ~CanRead(bytes, 4, 4) THEN Err ELSE ReadLabels(bytes, 8, U32(bytes, 4))

(* TblHandler(dat_path).get_labels(): _load_tbl raises when the file is
   missing, when the header is invalid and when an entry cannot be read. *)
get_labels(sidecar) ==
  IF ~sidecar.exists THEN Err
  ELSE IF ~_validate_header(sidecar.bytes) THEN Err
  ELSE _read_entries(sidecar.bytes)

RECURSIVE HexDigits(_)
(* The hex digits of the bytes of a little-endian integer, most significant
   first, in lower case. *)
HexDigits(le) ==
  IF le = <<>> THEN <<>>
  ELSE LET b == le[Len(le)]
           d(v) == IF v < 10 THEN 48 + v ELSE 87 + v
       IN  <<d(b \div 16), d(b % 16)>> \o HexDigits(SubSeq(le, 1, Len(le) - 1))

RECURSIVE DropZeros(_)
DropZeros(s) == IF Len(s) > 1 /\ Head(s) = 48 THEN DropZeros(Tail(s)) ELSE s

(* hex(labels[idx]["hash"]): '0x' and the digits without leading zeros. *)
hex(le) == <<48, 120>> \o DropZeros(HexDigits(le))

(* The entry process_file builds for line idx (from 0). *)
JsonEntry(labels, idx, line) ==
  [id   |-> IF idx < Len(labels) THEN labels[idx + 1].id
            ELSE <<85, 78, 75, 78, 79, 87, 78, 95>> \o Dec(idx),
   hash |-> IF idx < Len(labels) THEN hex(labels[idx + 1].hash) ELSE <<78, 47, 65>>,
   text |-> line]

(* A string the file opened with encoding='utf-8' can take: no code point
   of the surrogate range. *)
Utf8Encodable(s) == \A k \in DOMAIN s : ~(s[k] >= 55296 /\ s[k] <= 57343)

RECURSIVE WrittenPrefix(_)
(* The entries json.dump wrote in full before f_json.write raised. *)
WrittenPrefix(json_data) ==
  IF json_data = <<>> THEN <<>>
  ELSE IF ~(Utf8Encodable(Head(json_data).id) /\ Utf8Encodable(Head(json_data).text)) THEN <<>>
  ELSE <<Head(json_data)>> \o WrittenPrefix(Tail(json_data))

(* json.dump(json_data, f_json, ensure_ascii=False, indent=4) inside the
   try: the file holds the entries written in full; complete is False when
   a write raised UnicodeEncodeError, which is caught and logged. *)
WriteJson(json_data) ==
  [made |-> TRUE, complete |-> Len(WrittenPrefix(json_data)) = Len(json_data),
   entries |-> WrittenPrefix(json_data)]

(* No JSON file: the early return, or no output folder. *)
NoJson == [made |-> FALSE, complete |-> FALSE, entries |-> <<>>]

(* The bytes of a sidecar: magic, count, then per label the 8 bytes of the
   hash, the length of the name and the name. *)
RECURSIVE TblEntries(_)
TblEntries(labels) ==
  IF labels = <<>> THEN <<>>
  ELSE Head(labels).hash \o P16(Len(Head(labels).name)) \o Head(labels).name
         \o TblEntries(Tail(labels))

TblBytes(magic, count, labels) == P32(magic) \o P32(count) \o TblEntries(labels)

(* Labels 'lab0' (padded with two zero bytes, hash 0x1234), 'b' (hash
   0xFFFFFFFFFFFFFFFF) and the byte 0x80 (hash 0). *)
LabelPool ==
  << [hash |-> <<52, 18, 0, 0, 0, 0, 0, 0>>, name |-> <<108, 97, 98, 48, 0, 0>>],
     [hash |-> <<255, 255, 255, 255, 255, 255, 255, 255>>, name |-> <<98>>],
     [hash |-> <<0, 0, 0, 0, 0, 0, 0, 0>>, name |-> <<128>>] >>

(* The sidecars: missing, empty, wrong magic, 0 .. 3 labels, a file cut
   inside its second label, a count above the labels present, a name that
   runs past the end of the file, and a name cp1252 cannot decode. *)
Sidecars ==
  {[exists |-> FALSE, bytes |-> <<>>]}
    \cup {[exists |-> TRUE, bytes |-> b] : b \in
           {<<>>, TblBytes(5, 1, SubSeq(LabelPool, 1, 1))}
             \cup {TblBytes(MAGIC, n, SubSeq(LabelPool, 1, n)) : n \in 0 .. 3}
             \cup {Slice(TblBytes(MAGIC, 2, SubSeq(LabelPool, 1, 2)), 0, 30),
                   TblBytes(MAGIC, 3, SubSeq(LabelPool, 1, 2)),
                   Slice(TblBytes(MAGIC, 1, SubSeq(LabelPool, 1, 1)), 0, 20),
                   TblBytes(MAGIC, 2, <<LabelPool[1], [hash |-> LabelPool[2].hash, name |-> <<129>>]>>)}}

(* The .dat files: containers of 0, 1, 2 and 3 lines, containers with the
   unit 0xD800 in the first and in the second line, and a file that is no
   container. *)
DatFiles ==
  {ForeignContainer(units, Zeros(Len(units))) : units \in
     {<<>>, <<<<>>>>, <<<<65>>, <<66>>>>, <<<<65>>, <<66>>, <<67>>>>,
      <<<<55296>>, <<66>>>>, <<<<65>>, <<55296>>>>}}
    \cup {<<1, 0>>}

(* reader.process_file(file_path, input_root, output_folder) is called. *)
InitLabels ==
  /\ game \in AssignGames /\ remap = FALSE
  /\ pc = "file"
  /\ \E data \in DatFiles : \E sidecar \in Sidecars : \E output_folder \in BOOLEAN :
       input = [data |-> data, sidecar |-> sidecar, output_folder |-> output_folder]
  /\ buf = Unused /\ tf = Unused /\ lines = Unused /\ one = Unused
  /\ buf2 = Unused /\ lines2 = Unused

(* lines = self.read_dat_file(file_path); if not lines: return *)
ReadDatFile ==
  /\ pc = "file"
  /\ lines' = get_strings(input.data)
  /\ IF lines'.ok /\ lines'.val # <<>>
     THEN pc' = "lines" /\ UNCHANGED buf2
     ELSE pc' = "done" /\ buf2' = NoJson
  /\ UNCHANGED <<game, remap, input, buf, tf, one, lines2>>

(* labels = []; try: labels = TblHandler(file_path).get_labels(); except
   Exception: a warning *)
LoadLabels ==
  /\ pc = "lines"
  /\ one' = With(get_labels(input.sidecar), LAMBDA loaded : IF loaded.ok THEN loaded.val ELSE <<>>)
  /\ pc' = "labels"
  /\ UNCHANGED <<game, remap, input, buf, tf, lines, buf2, lines2>>

(* With an output folder: the entries are built and written; without: the
   lines are logged and no file is made. *)
EmitRecords ==
  /\ pc = "labels"
  /\ buf2' = IF input.output_folder
             THEN WriteJson([k \in DOMAIN lines.val |-> JsonEntry(one, k - 1, lines.val[k])])
             ELSE NoJson
  /\ pc' = "done"
  /\ UNCHANGED <<game, remap, input, buf, tf, lines, one, lines2>>

NextLabels == ReadDatFile \/ LoadLabels \/ EmitRecords

SpecLabels == InitLabels /\ [][NextLabels]_vars
---------------------------------------------------------------------------
(* The loops of parse_line_string and string_to_line_data, one iteration    *)
(* at a time.                                                               *)

(* Bound: the number of pieces a buffer or a string is put together from. *)
MaxPieces == 2

(* A variant of the step after a unit that leaves the index where it is. *)
SameUnit(i) == i

(* i += 2 after a unit is read. *)
AfterUnit(i) == i + 2

(* One iteration of the while loop of parse_line_string at read offset i
   with s written so far: the loop goes on ("next"), leaves through break,
   or an exception leaves the function ("raised"). *)
DecodeIteration(data, i, s) ==
  IF ~CanRead(data, i, 2) THEN [status |-> "raised", i |-> i, s |-> s]
  ELSE With(U16(data, i), LAMBDA val :
    LET j == AfterUnit(i)
    IN  IF val = TERMINATOR_KEY THEN [status |-> "break", i |-> j, s |-> s]
        ELSE IF val = VARIABLE_KEY
             THEN With(parse_variable_string(data, j), LAMBDA v :
                    IF ~v.ok THEN [status |-> "raised", i |-> j, s |-> s]
                    ELSE [status |-> "next", i |-> j + v.val.consumed, s |-> s \o v.val.str])
        ELSE IF val = 10 THEN [status |-> "next", i |-> j, s |-> s \o <<92, 110>>]
        ELSE IF val = 92 THEN [status |-> "next", i |-> j, s |-> s \o <<92, 92>>]
        ELSE IF val = 91 THEN [status |-> "next", i |-> j, s |-> s \o <<92, 91>>]
        ELSE IF val = 123 THEN [status |-> "next", i |-> j, s |-> s \o <<92, 123>>]
        ELSE [status |-> "next", i |-> j, s |-> s \o PlainUnitText(val)])

(* One iteration of the while loop of string_to_line_data at character
   index i with the units of result appended so far. *)
EncodeIteration(line, i, result) ==
  With(line[i + 1], LAMBDA c :
    LET j == i + 1
    IN  IF c = 91
        THEN LET end == FindFrom(line, 93, j)
                 v   == parse_variable_values(Slice(line, j, end))
             IN  IF end < 0 \/ ~v.ok THEN [status |-> "raised", i |-> j, s |-> result]
                 ELSE [status |-> "next", i |-> end + 1, s |-> result \o v.val]
        ELSE IF c = 123
        THEN LET end == FindFrom(line, 125, j)
                 v   == parse_ruby_values(Slice(line, j, end))
             IN  IF end < 0 \/ ~v.ok THEN [status |-> "raised", i |-> j, s |-> result]
                 ELSE [status |-> "next", i |-> end + 1, s |-> result \o v.val]
        ELSE IF c = 92
        THEN IF j >= Len(line) THEN [status |-> "raised", i |-> j, s |-> result]
             ELSE LET v == parse_escape_values(line[j + 1])
                  IN  IF ~v.ok THEN [status |-> "raised", i |-> j, s |-> result]
                      ELSE [status |-> "next", i |-> j + 1, s |-> result \o v.val]
        ELSE [status |-> "next", i |-> j, s |-> result \o <<PlainCharUnit(c)>>])

(* Runs of units: a letter, a terminator, a WAIT token, a named variable
   with one argument, a ruby token whose base is an empty ruby token, a ruby
   token whose lengths run past any buffer, a named variable with a count
   of 0xFFFF, and a marker with nothing after it. *)
UnitPieces ==
  {<<65>>, <<0>>, <<16, 2, 48642, 30>>, <<16, 2, 256, 1>>,
   <<16, 8, 65281, 5, 0, 16, 3, 65281, 0, 0>>,
   <<16, 65535, 65281, 65535, 65535, 65>>, <<16, 65535, 256, 1>>, <<16>>}

(* Texts: a letter, an escape, a WAIT token, ruby texts, and the starts of
   an escape, a token and a ruby text. *)
TextPieces ==
  {<<65>>, <<92, 110>>, <<91, 87, 65, 73, 84, 32, 53, 93>>, <<123, 97, 124, 120, 125>>,
   <<92>>, <<91>>, <<123, 97>>, <<93>>}

RECURSIVE Joined(_, _)
(* The concatenations of up to n members of pieces. *)
Joined(pieces, n) ==
  IF n = 0 THEN {<<>>}
  ELSE Joined(pieces, n - 1) \cup {a \o b : a \in Joined(pieces, n - 1), b \in pieces}

(* The buffers decoded: packed runs, and the same without their last byte. *)
StepBuffers ==
  {PackUnits(units) : units \in Joined(UnitPieces, MaxPieces)}
    \cup {Slice(PackUnits(units), 0, 2 * Len(units) - 1) : units \in Joined(UnitPieces, 1) \ {<<>>}}

(* The body of the loop of parse_line_string on data, at every read offset:
   what one iteration entered at offset i does. *)
DecodeBody(data) == [i \in 0 .. Len(data) - 1 |-> DecodeIteration(data, i, <<>>)]

(* The body of the loop of string_to_line_data on line, at every index. *)
EncodeBody(line) == [i \in 0 .. Len(line) - 1 |-> EncodeIteration(line, i, <<>>)]

(* parse_line_string(data) or string_to_line_data(line) is entered: i = 0
   and nothing written.  input.body is the loop body on this input. *)
InitSteps ==
  /\ game \in AssignGames /\ remap = FALSE
  /\ pc = "loop"
  /\ \/ \E data \in StepBuffers :
          input = [kind |-> "decode", data |-> data, body |-> DecodeBody(data)]
     \/ \E line \in Joined(TextPieces, MaxPieces) :
          input = [kind |-> "encode", data |-> line, body |-> EncodeBody(line)]
  /\ one = [i |-> 0, steps |-> 0, s |-> <<>>]
  /\ buf = Unused /\ tf = Unused /\ lines = Unused
  /\ buf2 = Unused /\ lines2 = Unused

(* while i < len(data): one iteration of parse_line_string. *)
DecodeStep ==
  /\ pc = "loop" /\ input.kind = "decode" /\ one.i < Len(input.data)
  /\ LET it == input.body[one.i]
     IN  /\ one' = [i |-> it.i, steps |-> one.steps + 1, s |-> one.s \o it.s]
         /\ IF it.status = "next" THEN UNCHANGED <<pc, lines>>
            ELSE /\ pc' = "done"
                 /\ lines' = IF it.status = "break" THEN Ok(one.s \o it.s) ELSE Err
  /\ UNCHANGED <<game, remap, input, buf, tf, buf2, lines2>>

(* The loop condition of parse_line_string fails: return s.getvalue(). *)
DecodeReturn ==
  /\ pc = "loop" /\ input.kind = "decode" /\ one.i >= Len(input.data)
  /\ pc' = "done"
  /\ lines' = Ok(one.s)
  /\ UNCHANGED <<game, remap, input, buf, tf, one, buf2, lines2>>

(* while i < len(line): one iteration of string_to_line_data. *)
EncodeStep ==
  /\ pc = "loop" /\ input.kind = "encode" /\ one.i < Len(input.data)
  /\ LET it == input.body[one.i]
     IN  /\ one' = [i |-> it.i, steps |-> one.steps + 1, s |-> one.s \o it.s]
         /\ IF it.status = "next" THEN UNCHANGED <<pc, buf>>
            ELSE pc' = "done" /\ buf' = Err
  /\ UNCHANGED <<game, remap, input, tf, lines, buf2, lines2>>

(* The loop condition of string_to_line_data fails: the terminator is
   appended and the units are packed. *)
EncodeReturn ==
  /\ pc = "loop" /\ input.kind = "encode" /\ one.i >= Len(input.data)
  /\ pc' = "done"
  /\ buf' = PackLine(one.s \o <<TERMINATOR_KEY>>)
  /\ UNCHANGED <<game, remap, input, tf, lines, one, buf2, lines2>>

NextSteps == DecodeStep \/ DecodeReturn \/ EncodeStep \/ EncodeReturn

SpecSteps == InitSteps /\ [][NextSteps]_vars

(* The interpreter runs the loop on: an iteration that can be taken is
   taken. *)
SpecStepsFair == SpecSteps /\ WF_vars(NextSteps)

---------------------------------------------------------------------------
(* Properties.                                                              *)

(* C1: round trip P1 (decode, encode, decode).  For every accepted buffer
   B, with L = get_strings(B) and F the flags stored in B, get_bytes(L, F)
   succeeds and get_strings of it is L again, line for line.  Stated of the
   runs of SpecRoundTrip, whose buffers hold arbitrary plaintext units,
   white space at either end of a line included. *)
RoundTripP1 ==
  /\ (pc = "reencoded" => buf2.ok)
  /\ (pc = "redecoded" => lines2 = lines)

(* C2: byte-stable re-encode P2.  For every buffer B = get_bytes(L, F) the
   encoder produced, decoding B succeeds and re-encoding the decoded lines
   with the flags of B gives exactly the bytes of B.  Stated of the runs of
   SpecWrite. *)
ByteStableP2 ==
  /\ (pc = "decoded" => lines.ok)
  /\ (pc = "reencoded" => buf2 = buf)

(* C3: self-inverse cipher P3.  For every even-length buffer b and 16-bit
   key k, encrypt_line_data(b, k) has the length of b,
   encrypt_line_data(encrypt_line_data(b, k), k) = b, and the buffer handed
   in is unchanged after the call. *)
SelfInverseP3 ==
  /\ (pc \in {"once", "twice"} =>
        /\ buf.ok
        /\ Len(buf.val) = Len(input.data)
        /\ input.held = input.data)
  /\ (pc = "twice" => buf2 = Ok(input.data))

(* A two-word buffer under a non-zero key, enciphered twice. *)
SelfInverseP3Seen ==
  /\ pc = "twice"
  /\ Len(input.data) = 4
  /\ input.key = 31881
  /\ buf.val # input.data

(* C4, as amended: per-line independence P4.  On every accepted container on
   which the bulk lines getter returns, get_line(i) returns the i-th element
   of the bulk result for every 0 <= i < line_count; and get_line(i) raises
   only on containers on which the bulk getter raises as well. *)
PerLineP4 ==
  pc = "line" =>
    /\ (lines.ok => one.text = Ok(lines.val[one.index + 1]))
    /\ (~one.text.ok => ~lines.ok)

(* get_line(1) returned the non-empty second line of a two-line container
   whose bulk decoding returned too. *)
PerLineP4Seen ==
  /\ pc = "line"
  /\ lines.ok
  /\ one.index = 1
  /\ one.text.ok
  /\ one.text.val # <<>>
  /\ one.text = Ok(lines.val[2])

(* C4, as stated: on every accepted container and for every
   0 <= i < line_count, the string get_line(i) returns is the i-th element
   of what the bulk lines getter returns. *)
PerLineP4AsStated ==
  (pc = "line" /\ one.text.ok) => (lines.ok /\ one.text = Ok(lines.val[one.index + 1]))

(* The reference computation of C5: the key of unit j of line i is
   (0x7C89 + i * 0x2983) mod 2^16 rotated left by three bits j times. *)
RECURSIVE UnitKey(_, _)
UnitKey(i, j) ==
  IF j = 0 THEN (31881 + i * 10627) % 65536
  ELSE With(UnitKey(i, j - 1), LAMBDA k : ((k * 8) % 65536) + (k \div 8192))

(* The code units of a line as the encoder takes it: None as the empty
   string, white space trimmed at both ends, the terminator appended. *)
UnitsOfLine(text) ==
  With(string_to_line_data(IF text = NoneText THEN <<>> ELSE Strip(text)).val, LAMBDA bytes :
    [k \in 1 .. Len(bytes) \div 2 |-> U16(bytes, 2 * (k - 1))])

(* The run of line i (from 0) holding the given units: two bytes per unit,
   low byte first, of the unit XOR its key. *)
ExpectedRun(i, units) ==
  [b \in 1 .. 2 * Len(units) |->
     With(Xor16(units[(b + 1) \div 2], UnitKey(i, (b - 1) \div 2)), LAMBDA w :
       IF b % 2 = 1 THEN w % 256 ELSE w \div 256)]

(* The entries of an accepted buffer. *)
EntriesOf(data) == line_offsets(TextFile_init(data).val).val

(* C5: encoded run of line i.  In the container from_lines(L, F) builds, for
   every i the bytes at section_data_offset + offset_i of length
   2 * length_i are the units of line i, terminator 0x0000 last, each XORed
   with the line key (0x7C89 + i * 0x2983) mod 2^16 (0x7C89 for line 0,
   0xA60C for line 1) rotated left by 3 bits once per preceding unit;
   length_i counts the units with the terminator. *)
EncodedRunOfLine ==
  (pc = "encoded" /\ buf.ok) =>
    /\ UnitKey(0, 0) = 31881 /\ UnitKey(1, 0) = 42508
    /\ Len(EntriesOf(buf.val)) = Len(input.lines)
    /\ \A i \in 1 .. Len(input.lines) :
         With(UnitsOfLine(input.lines[i]), LAMBDA units :
           With(EntriesOf(buf.val)[i], LAMBDA entry :
             /\ entry.length = Len(units)
             /\ units[Len(units)] = 0
             /\ Slice(buf.val, 16 + entry.offset, 16 + entry.offset + 2 * entry.length)
                  = ExpectedRun(i - 1, units)))

(* A container of two lines was built: None, then text in white space. *)
EncodedRunOfLineSeen ==
  /\ pc = "encoded"
  /\ buf.ok
  /\ input.lines = <<NoneText, <<32, 65, 32>>>>
  /\ EntriesOf(buf.val)[2].length = 2

(* C6: empty container P8.  Encoding an empty line list with an empty flag
   list gives, for every game, the 20 bytes
   01 00 00 00 04 00 00 00 00 00 00 00 10 00 00 00 04 00 00 00, and decoding
   them gives an empty list. *)
EmptyContainerP8 ==
  /\ (pc \in {"encoded", "decoded"} /\ input.lines = <<>> =>
        buf = Ok(<<1, 0, 0, 0, 4, 0, 0, 0, 0, 0, 0, 0, 16, 0, 0, 0, 4, 0, 0, 0>>))
  /\ (pc = "decoded" /\ input.lines = <<>> => lines = Ok(<<>>))

(* The empty list was encoded and decoded under the last game table. *)
EmptyContainerP8Seen ==
  /\ pc = "decoded"
  /\ input.lines = <<>>
  /\ input.flags = <<>>
  /\ game = "LZA"
  /\ Len(buf.val) = 20

(* The header of data fails one of the four tests of C7 (the fields read as
   the constructor reads them). *)
HeaderFails(data) ==
  /\ Len(data) >= 16
  /\ \/ U16(data, 0) # 1
     \/ U32(data, 8) # 0
     \/ U32(data, 12) + U32(data, 4) # Len(data)
     \/ (CanRead(data, U32(data, 12), 4) /\ U32(data, U32(data, 12)) # U32(data, 4))

(* C7: header validation on read.  Whenever text_sections # 1, or
   initial_key # 0, or section_length # total_length, or
   section_data_offset + total_length # the length of the buffer, the
   constructor raises, no object is made, and get_strings returns None. *)
HeaderValidation ==
  /\ (pc = "constructed" /\ HeaderFails(buf.val) => ~tf.ok)
  /\ (pc = "strings" /\ HeaderFails(buf.val) => lines = None)

(* get_strings was called on a container whose only fault is its
   section_length. *)
HeaderValidationSeen ==
  /\ pc = "strings"
  /\ input.damage # <<>>
  /\ input.damage.field = "section_length"
  /\ U16(buf.val, 0) = 1
  /\ U32(buf.val, 8) = 0
  /\ U32(buf.val, 12) + U32(buf.val, 4) = Len(buf.val)
  /\ HeaderFails(buf.val)
  /\ lines = None

(* Some entry of the object lies outside its section: a negative offset, an
   offset past the section, or offset + 2 * length past the section. *)
EntryOutsideSection(tf_) ==
  /\ line_offsets(tf_).ok
  /\ \E k \in 1 .. Len(line_offsets(tf_).val) :
       With(line_offsets(tf_).val[k], LAMBDA entry :
         \/ entry.offset < 0
         \/ entry.offset > section_length(tf_)
         \/ entry.offset + 2 * entry.length > section_length(tf_))

(* C8: line-entry bounds validation on read.  On a buffer whose header
   passes, if some entry lies outside the section then the lines getter,
   get_line and get_strings all raise (get_strings: return None) and none
   returns strings. *)
EntryBoundsValidation ==
  /\ (pc \in {"lines", "line"} /\ EntryOutsideSection(tf.val) => ~lines.ok)
  /\ (pc = "line" /\ EntryOutsideSection(tf.val) => ~one.text.ok)
  /\ (pc = "strings" /\ TextFile_init(buf.val).ok /\ EntryOutsideSection(TextFile_init(buf.val).val)
        => lines = None)

(* C9: flags are preserved.  For every L and F of one length with every F[i]
   in 0 .. 65535 for which get_bytes returns B, the flags field of entry i
   of B (bytes 6 and 7 of the entry) holds F[i], and TextFile(B).flags = F. *)
FlagsPreserved ==
  (pc = "encoded" /\ buf.ok) =>
    /\ U16(buf.val, 2) = Len(input.flags)
    /\ \A i \in 1 .. Len(input.flags) : U16(buf.val, 16 + 4 + 8 * (i - 1) + 6) = input.flags[i]
    /\ FlagsOf(buf.val) = input.flags

(* Two lines were encoded with the flags 0xFFFF and 0. *)
FlagsPreservedSeen ==
  /\ pc = "encoded"
  /\ buf.ok
  /\ input.flags = <<65535, 0>>
  /\ FlagsOf(buf.val) = <<65535, 0>>

(* The byte positions of the section (from section_data_offset) that no run
   and no part of the entry table covers. *)
PaddingPositions(entries, section) ==
  {p \in 4 + 8 * Len(entries) .. section - 1 :
     \A k \in 1 .. Len(entries) :
       p < entries[k].offset \/ p >= entries[k].offset + 2 * entries[k].length}

(* C10: layout of every container the encoder produced, n lines.  Offsets
   count from section_data_offset; offset_0 = 4 + 8n; every offset is a
   multiple of 4; offset_{i+1} = offset_i + 2 * length_i, plus 2 when that
   sum is 2 mod 4; no run overlaps another or the entry table; every padding
   byte is zero. *)
LayoutInvariant ==
  (pc = "encoded" /\ buf.ok) =>
    With(EntriesOf(buf.val), LAMBDA entries :
      With(Len(entries), LAMBDA n :
        /\ U32(buf.val, 12) = 16
        /\ n = Len(input.lines)
        /\ (n > 0 => entries[1].offset = 4 + 8 * n)
        /\ \A i \in 1 .. n :
             /\ entries[i].offset % 4 = 0
             /\ entries[i].offset >= 4 + 8 * n
             /\ 16 + entries[i].offset + 2 * entries[i].length <= Len(buf.val)
        /\ \A i \in 1 .. n - 1 :
             With(entries[i].offset + 2 * entries[i].length, LAMBDA end :
               /\ entries[i + 1].offset = (IF end % 4 = 2 THEN end + 2 ELSE end)
               /\ entries[i + 1].offset >= end)
        /\ \A p \in PaddingPositions(entries, Len(buf.val) - 16) : buf.val[16 + p + 1] = 0))

(* Two lines were laid out with two bytes of padding between their runs. *)
LayoutInvariantSeen ==
  /\ pc = "encoded"
  /\ buf.ok
  /\ Len(input.lines) = 2
  /\ EntriesOf(buf.val)[2].offset = EntriesOf(buf.val)[1].offset + 2 * EntriesOf(buf.val)[1].length + 2
  /\ EntriesOf(buf.val)[2].length >= 2
---------------------------------------------------------------------------
(* Properties of the string grammar.                                        *)

(* The kinds of the forms a line was written from. *)
KindsOf(forms) == {forms[k].kind : k \in DOMAIN forms}

(* The units the grammar assigns to a line: those of its forms in order,
   then the terminator. *)
UnitsOfForms(forms) == Concat([k \in DOMAIN forms |-> forms[k].units]) \o <<TERMINATOR_KEY>>

(* C11: every escape form encodes to the units the grammar names for it
   (\n 0x000A, \\ 0x005C, \[ 0x005B, \{ 0x007B, \r {0x10, 1, 0xBE00},
   \c {0x10, 1, 0xBE01}, [WAIT D] {0x10, 2, 0xBE02, D}, [~ D]
   {0x10, 2, 0xBDFF, D}), alone or concatenated with plain characters and
   other escape forms, and decoding those units returns the original text. *)
EscapeLawsP5 ==
  (pc \in {"units", "parsed"} /\ KindsOf(input.forms) \subseteq {"plain", "escape"})
    => /\ buf = Ok(PackUnits(UnitsOfForms(input.forms)))
       /\ pc = "parsed" => lines = Ok(input.text)

EscapeLawsP5Seen ==
  /\ pc = "parsed" /\ lines = Ok(input.text)
  /\ Len(input.forms) = 2
  /\ input.forms[1].kind = "plain"
  /\ input.forms[2].units = <<VARIABLE_KEY, 2, WAIT_TEXT_KEY, 65535>>

(* C12: a two-part ruby text {B|R} and a three-part ruby text {B1|R|B2}
   with bases of equal length, made of plain characters, encode to
   {0x10, 3 + base_len + ruby_len, 0xFF01, base_len, ruby_len, base1, ruby,
   base2} (base2 = base1 when the text has two parts), alone or next to
   plain characters and other ruby texts, and decoding returns the original
   text: two parts when the base runs are equal, three otherwise. *)
RubySymmetryP6 ==
  (pc \in {"units", "parsed"} /\ KindsOf(input.forms) \subseteq {"plain", "ruby"})
    => /\ buf = Ok(PackUnits(UnitsOfForms(input.forms)))
       /\ pc = "parsed" => lines = Ok(input.text)

RubySymmetryP6Seen ==
  /\ pc = "parsed" /\ lines = Ok(input.text)
  /\ Len(input.forms) = 2
  /\ input.forms[1].text = <<123, 97, 98, 124, 120, 121, 124, 99, 100, 125>>
  /\ input.forms[2].text = <<123, 97, 98, 124, 120, 121, 125>>

(* C13: where the table of the game holds a code k under a one-character
   name c (0xE300 under the pokedollar sign in LGPE and LZA), a plain c
   encodes to the unit k and the unit k decodes to c, so a line of plain
   characters and c round-trips; '100' followed by the sign, in LGPE,
   encodes to units that contain 0xE300. *)
LiteralCharacterP7 ==
  (pc \in {"units", "parsed"} /\ KindsOf(input.forms) \subseteq {"plain", "literal"})
    => /\ buf = Ok(PackUnits(UnitsOfForms(input.forms)))
       /\ pc = "parsed" => lines = Ok(input.text)

LiteralCharacterP7Seen ==
  /\ pc = "parsed" /\ game = "LGPE"
  /\ input.text = <<49, 48, 48, 8381>>
  /\ buf = Ok(PackUnits(<<49, 48, 48, 58112, 0>>))
  /\ lines = Ok(input.text)

(* C14: TextConfig is built for exactly the identifiers LGPE, SWSH, LA, SV
   and LZA and raises for every other one; 'default', which TextFile uses
   when it is given no config, is among the others, so TextFile, get_strings
   and get_bytes without a config never yield a container or its lines. *)
GameSelectorClosed ==
  /\ pc = "config" => (one.ok <=> game \in {"LGPE", "SWSH", "LA", "SV", "LZA"})
  /\ (pc \in {"constructed", "strings", "bytes"} /\ input.configured)
       => game \in {"LGPE", "SWSH", "LA", "SV", "LZA"}
  /\ (pc = "constructed" /\ input.configured) => tf.ok
  /\ (pc = "strings" /\ input.configured) => lines.ok
  /\ (pc = "bytes" /\ input.configured) => buf.ok
  /\ (pc = "constructed" /\ ~input.configured) => ~tf.ok
  /\ (pc = "strings" /\ ~input.configured) => lines = None
  /\ (pc = "bytes" /\ ~input.configured) => ~buf.ok

GameSelectorClosedSeen ==
  /\ pc = "strings" /\ ~input.configured /\ game = "default"
  /\ input.data = OneLineFile /\ lines = None

(* The lines 'A', 'B' with flags 0, 0 have been written by get_bytes. *)
ScenarioFiveWritten ==
  pc = "bytes" /\ input.lines = <<<<65>>, <<66>>>> /\ input.flags = <<0, 0>> /\ buf.ok

(* The layout of scenario 5 with the section length n: header of 16 bytes,
   section_length and total_length n, two entries of two units each at
   offsets 20 and 24, and the two 4-byte ciphertext runs at those offsets,
   the second directly behind the first, ending the buffer. *)
ScenarioFiveLayout(n) ==
  /\ Len(buf.val) = 16 + n
  /\ U32(buf.val, 4) = n /\ U32(buf.val, 16) = n
  /\ U16(buf.val, 2) = 2
  /\ I32(buf.val, 20) = 20 /\ U16(buf.val, 24) = 2 /\ U16(buf.val, 26) = 0
  /\ I32(buf.val, 28) = 24 /\ U16(buf.val, 32) = 2 /\ U16(buf.val, 34) = 0
  /\ Slice(buf.val, 36, 40) = encrypt_line_data(PackUnits(<<65, 0>>), get_line_key(0)).val
  /\ Slice(buf.val, 40, 44) = encrypt_line_data(PackUnits(<<66, 0>>), get_line_key(1)).val

(* C15 (as amended): encoding the lines 'A', 'B' with flags 0, 0 gives a
   section whose section_length and total_length are 28 (length word 4,
   entries 16, runs 8), with two entries and two 4-byte ciphertext runs and
   no padding between them. *)
ScenarioFiveLength == ScenarioFiveWritten => ScenarioFiveLayout(28)

ScenarioFiveLengthSeen == ScenarioFiveWritten /\ game = "LGPE" /\ ScenarioFiveLayout(28)

(* C15 as stated: the section_length of scenario 5 is 24. *)
ScenarioFiveLengthAsStated == ScenarioFiveWritten => U32(buf.val, 16) = 24 /\ U32(buf.val, 4) = 24

(* The units the decoder treats specially: terminator, variable marker, line
   feed, backslash, '[' and '{'. *)
SpecialUnits == {TERMINATOR_KEY, VARIABLE_KEY, 10, 92, 91, 123}

(* The one-character name the table holds for code, or <<>>. *)
LiteralNameOf(code) ==
  LET hits == {k \in DOMAIN variables : variables[k].code = code /\ Len(variables[k].name) = 1}
  IN  IF hits = {} THEN <<>> ELSE variables[CHOOSE k \in hits : TRUE].name

(* C16: a plain unit other than 0x0000, 0x0010, 0x000A, 0x005C, 0x005B and
   0x007B decodes to the table's character when the table holds it under a
   one-character name, and otherwise to the one character whose code point
   is the (remapped) unit, also when the table holds the unit under a
   longer name. *)
PlainUnitDecodeRule ==
  (pc = "text" /\ input.shape = "plain" /\ input.code \notin SpecialUnits)
    => lines = Ok(IF LiteralNameOf(input.code) # <<>> THEN LiteralNameOf(input.code)
                  ELSE <<try_remap_character(input.code)>>)

(* C18: no table holds two codes under one name, so the lookups are
   inverse: get_variable_number(get_variable_string(c)) = c for every code
   c, and the identifier of a variable token is the same after decoding and
   encoding again. *)
LookupInversePair ==
  /\ pc = "numbered"
       => /\ one.number = Ok(input.code)
          /\ \A k \in DOMAIN variables :
               variables[k].name = one.name => variables[k].code = input.code
  /\ (pc = "units" /\ input.shape = "token" /\ buf2.ok) => U16(buf2.val, 4) = input.code

(* C17: '[VAR N]' and '[VAR N(H_1,...,H_k)]', N a name of the active table
   or the 4-digit hex form of a code outside it and H_j the 4-digit hex of a
   16-bit argument, encode to {0x10, 1 + k, lookup(N), a_1, ..., a_k}, and
   decoding those units consumes the token alone and returns the same
   text. *)
NamedVariableTokens ==
  (pc \in {"units", "parsed"} /\ KindsOf(input.forms) \subseteq {"plain", "var"})
    => /\ buf = Ok(PackUnits(UnitsOfForms(input.forms)))
       /\ pc = "parsed" => lines = Ok(input.text)

(* The character at 1-based position i of text is not the second character
   of an escape: an even number of backslashes stands directly before it. *)
Unescaped(text, i) ==
  LET run == {n \in 0 .. i - 1 : \A m \in 1 .. n : text[i - m] = 92}
  IN  (CHOOSE n \in run : \A r \in run : r <= n) % 2 = 0

(* A backslash followed by a character other than n \ [ { r c, or by nothing. *)
HasBadEscape(text) ==
  \E i \in DOMAIN text :
    /\ text[i] = 92 /\ Unescaped(text, i)
    /\ (i = Len(text) \/ text[i + 1] \notin {110, 92, 91, 123, 114, 99})

(* An unescaped opening character with no closing character after it. *)
HasUnterminated(text, opening, closing) ==
  \E i \in DOMAIN text :
    /\ text[i] = opening /\ Unescaped(text, i)
    /\ \A j \in i + 1 .. Len(text) : text[j] # closing

(* A line the grammar rejects: a bad escape, an unterminated token, or a
   token with a malformed body among plain characters. *)
MalformedLine ==
  \/ HasBadEscape(input.text)
  \/ HasUnterminated(input.text, 91, 93)
  \/ HasUnterminated(input.text, 123, 125)
  \/ /\ "malformed" \in KindsOf(input.forms)
     /\ KindsOf(input.forms) \subseteq {"plain", "malformed"}
     /\ \A k \in DOMAIN input.forms : input.forms[k].text # <<92>>

(* C19: string_to_line_data raises, and get_bytes returns no buffer, for
   every line that holds a backslash followed by a character other than
   n \ [ { r c or by nothing, an unescaped '[' with no later ']', an
   unescaped '{' with no later '}', a variable body without a space or of a
   kind other than ~, WAIT, VAR, a VAR name that is neither a table name nor
   a hex number, a ruby body of fewer than 2 or more than 3 parts, or a
   three-part ruby whose bases differ in length. *)
MalformedTextRejected ==
  MalformedLine => /\ pc = "units" => ~buf.ok
                   /\ pc = "written" => ~buf2.ok

(* C20: a line holding a character above U+FFFF, in plain text or in a ruby
   body, or a WAIT, ~ or VAR argument above 0xFFFF, is an encode error for
   string_to_line_data and for get_bytes; no line with such a character is
   ever encoded, so no unit is a value truncated to 16 bits. *)
OutOfRangeRejected ==
  /\ ("wide" \in KindsOf(input.forms) /\ "malformed" \notin KindsOf(input.forms))
       => /\ pc = "units" => ~buf.ok
          /\ pc = "written" => ~buf2.ok
  /\ (pc = "units" /\ buf.ok) => \A i \in DOMAIN input.text : input.text[i] <= 65535
  /\ (pc = "written" /\ buf2.ok) => \A i \in DOMAIN input.text : input.text[i] <= 65535

OutOfRangeRejectedSeen ==
  /\ pc = "units" /\ ~buf.ok
  /\ Len(input.forms) = 2
  /\ input.forms[1].kind = "plain"
  /\ input.forms[2].text = <<128512>>
---------------------------------------------------------------------------
(* Properties of the remap, the decoder's totality and the assignments.     *)

(* C21: with the remap enabled the decoder maps the private-use units
   0xE07F, 0xE08D, 0xE08E, 0xE08F to U+202F, U+2026, U+2642, U+2640 and the
   encoder maps each of those characters back to its unit, so decoding a
   plain unit of the remap table and encoding the text gives the unit
   again; with the remap disabled both directions leave the values as they
   are. *)
RemapSymmetric ==
  (input.shape = "plain" /\ input.code \in DOMAIN REMAP_CHAR_MAP)
    => /\ pc \in {"text", "units"}
            => lines = Ok(<<IF remap THEN REMAP_CHAR_MAP[input.code] ELSE input.code>>)
       /\ pc = "units" => buf2 = buf

(* C22: parse_line_string returns a string, without raising, for every
   buffer of whole 16-bit units, reading up to the first 0x0000 or the end
   of the buffer; also for a buffer that ends inside a variable token. *)
DecodeLineTotal == pc = "text" => lines.ok

(* C23: from_lines accepts only a flag sequence as long as the line
   sequence; with fewer or more flags than lines it raises instead of
   returning a container. *)
ParallelSequencesRequired ==
  (pc = "built" /\ Len(one.flags) # Len(one.value)) => ~buf.ok

(* The bytes get_line(index) hands to parse_line_string. *)
PlainOfLine(tf_, index) ==
  Then(get_encrypted_line(tf_, index), LAMBDA encrypted :
    encrypt_line_data(encrypted, get_line_key(index)))

(* Element k of the list the line_data getter returned is the run of line
   k - 1 deciphered with BASE_KEY rotated left 3 bits k - 1 times. *)
BulkKeyRotated ==
  \A k \in 1 .. Len(buf2.val) :
    Then(get_encrypted_line(tf.val, k - 1), LAMBDA encrypted :
      encrypt_line_data(encrypted, LineKeyByRotation(k - 1))) = Ok(buf2.val[k])

(* C24 as stated: the line_data getter deciphers line i with the key rotated
   left 3*i bits; element 0 is what get_line(0) parses and, with two lines
   or more, element 1 is not what get_line(1) parses. *)
BulkLineDataKeyAsStated ==
  (pc = "bulk" /\ buf2.ok)
    => /\ BulkKeyRotated
       /\ Len(buf2.val) >= 1 => PlainOfLine(tf.val, 0) = Ok(buf2.val[1])
       /\ Len(buf2.val) >= 2 => PlainOfLine(tf.val, 1) # Ok(buf2.val[2])

(* C24: the same, the difference of element 1 holding when the run of line
   1 has at least one code unit; an empty run is the same under every key. *)
BulkLineDataKey ==
  (pc = "bulk" /\ buf2.ok)
    => /\ BulkKeyRotated
       /\ Len(buf2.val) >= 1 => PlainOfLine(tf.val, 0) = Ok(buf2.val[1])
       /\ (Len(buf2.val) >= 2 /\ Len(buf2.val[2]) >= 2)
             => PlainOfLine(tf.val, 1) # Ok(buf2.val[2])
       /\ (Len(buf2.val) >= 2 /\ Len(buf2.val[2]) = 0)
             => PlainOfLine(tf.val, 1) = Ok(buf2.val[2])

BulkLineDataKeySeen ==
  /\ pc = "bulk" /\ buf2.ok /\ Len(buf2.val) >= 2 /\ Len(buf2.val[2]) >= 2
  /\ Slice(buf2.val[2], 0, 2) = P16(Xor16(U16(get_encrypted_line(tf.val, 1).val, 0), 58443))

EmptyRunSameUnderBothKeys ==
  /\ pc = "bulk" /\ buf2.ok /\ Len(buf2.val) >= 2 /\ Len(buf2.val[2]) = 0

(* The labels the sidecar of this run exposes: none when TblHandler raised. *)
ExposedLabels == With(get_labels(input.sidecar), LAMBDA loaded : IF loaded.ok THEN loaded.val ELSE <<>>)

(* C25: with an output folder, a container decoded to n >= 1 lines gives
   exactly n entries in line order; entry i carries the id and hash of
   label i when the sidecar exposes it and 'UNKNOWN_i' and 'N/A' otherwise,
   whatever the state of the sidecar. *)
LabelsJoinedByIndex ==
  (pc = "done" /\ input.output_folder /\ lines.ok /\ lines.val # <<>>)
    => /\ buf2.made /\ buf2.complete
       /\ Len(buf2.entries) = Len(lines.val)
       /\ \A k \in DOMAIN buf2.entries :
            /\ buf2.entries[k].text = lines.val[k]
            /\ k <= Len(ExposedLabels)
                 => /\ buf2.entries[k].id = ExposedLabels[k].id
                    /\ buf2.entries[k].hash = hex(ExposedLabels[k].hash)
            /\ k > Len(ExposedLabels)
                 => /\ buf2.entries[k].id = <<85, 78, 75, 78, 79, 87, 78, 95>> \o Dec(k - 1)
                    /\ buf2.entries[k].hash = <<78, 47, 65>>

(* text_sections = 1, initial_key = 0 and section_length = total_length =
   len(data) - section_data_offset. *)
HeaderValid(tf_) ==
  /\ text_sections(tf_) = 1 /\ initial_key(tf_) = 0
  /\ CanRead(tf_.data, tf_.sdo, 4)
  /\ section_length(tf_) = total_length(tf_)
  /\ total_length(tf_) = Len(tf_.data) - tf_.sdo

(* C26: after any sequence of successful lines assignments and flags
   assignments of exactly line_count values, on an object made from the
   empty container or an accepted buffer, the header is valid, line_count
   is the number of lines last assigned, the cached entries are those in
   the buffer, and the buffer is accepted again with the same lines and
   flags. *)
ContainerStaysValid ==
  (pc \in {"object", "reopened"} /\ input.clean)
    => /\ HeaderValid(tf.val)
       /\ input.assigned >= 0 => line_count(tf.val) = input.assigned
       /\ tf.val.offs.set => ReadEntries(tf.val, 0, line_count(tf.val)) = Ok(tf.val.offs.val)
       /\ pc = "reopened"
            => /\ lines2.made
               /\ lines2.lines = lines.lines /\ lines2.flags = lines.flags

ContainerStaysValidSeen ==
  /\ pc = "reopened" /\ input.clean /\ input.count = MaxAssigns
  /\ input.data = Relocated(TwoLineFile, 4)
  /\ one.op = "flags" /\ one.value = <<65535>> /\ one.before.offs.val[1].flags = 0
  /\ lines2.lines = Ok(<<<<65, 66>>>>) /\ lines2.flags = Ok(<<65535>>)

(* C27: a lines assignment that raises leaves the object as it was: the
   buffer with its header and entries, and the cached list of entries. *)
FailedAssignmentAtomic ==
  (pc = "object" /\ input.count > 0 /\ one.op = "lines" /\ ~one.ok) => tf.val = one.before

FailedAssignmentAtomicSeen ==
  /\ pc = "object" /\ input.count = MaxAssigns /\ one.op = "lines" /\ ~one.ok
  /\ one.value = <<<<65>>, <<92, 113>>>>
  /\ input.assigned = 2 /\ one.before.offs.set /\ tf.val = one.before

(* C28: after a lines assignment every entry of the buffer has flags 0,
   whatever the flags were before. *)
LinesAssignmentResetsFlags ==
  (pc = "object" /\ input.count > 0 /\ one.op = "lines" /\ one.ok)
    => /\ get_flags(tf.val) = Ok(Zeros(Len(one.value)))
       /\ \A k \in 1 .. line_count(tf.val) : U16(tf.val.data, tf.val.sdo + 4 + (k - 1) * 8 + 6) = 0

LinesAssignmentResetsFlagsSeen ==
  /\ pc = "object" /\ input.count > 0 /\ one.op = "lines" /\ one.ok
  /\ get_flags(one.before) = Ok(<<7, 65535>>)
  /\ Len(one.value) = 2 /\ get_flags(tf.val) = Ok(<<0, 0>>)

(* The byte positions (from 0) of the flags fields of the first n entries. *)
FlagsPositions(tf_, n) ==
  UNION {{tf_.sdo + 4 + k * 8 + 6, tf_.sdo + 4 + k * 8 + 7} : k \in 0 .. n - 1}

(* The byte positions (from 0) of the runs the entries give. *)
RunPositions(tf_, offsets) ==
  UNION {tf_.sdo + offsets[k].offset .. tf_.sdo + offsets[k].offset + 2 * offsets[k].length - 1 :
           k \in DOMAIN offsets}

(* C29: a flags assignment of exactly line_count values changes the flags
   fields of the entries and nothing else: the buffer keeps its length and
   every other byte, no byte of a run changes, and the decoded lines are
   the same. *)
FlagsAssignmentFrame ==
  (pc = "object" /\ input.count > 0 /\ one.op = "flags" /\ one.ok
     /\ Len(one.value) = line_count(one.before))
    => /\ Len(tf.val.data) = Len(one.before.data)
       /\ get_flags(tf.val) = Ok(one.value)
       /\ \A p \in 0 .. Len(tf.val.data) - 1 :
            (p \notin FlagsPositions(tf.val, Len(one.value))
               \/ p \in RunPositions(one.before, line_offsets(one.before).val))
              => tf.val.data[p + 1] = one.before.data[p + 1]
       /\ get_lines(tf.val) = get_lines(one.before)

(* The runs a ruby token at read offset i of data hands to the recursive
   calls of parse_line_string. *)
RubyRuns(data, i) ==
  IF CanRead(data, i, 10) /\ U16(data, i) = VARIABLE_KEY /\ U16(data, i + 4) = RUBY_TEXT_KEY
  THEN LET base_len == U16(data, i + 6)
           ruby_len == U16(data, i + 8)
           i1 == i + 10
           i2 == i1 + base_len * 2
           i3 == i2 + ruby_len * 2
       IN  {Slice(data, i1, i2), Slice(data, i2, i3), Slice(data, i3, i3 + base_len * 2)}
  ELSE {}

(* The loop is left once it returned or raised, with the result the whole
   function gives. *)
LoopResult ==
  pc = "done"
    => IF input.kind = "decode" THEN lines = parse_line_string(input.data)
       ELSE buf = string_to_line_data(input.data)

(* The number of iterations taken is at most the number of units of the
   buffer (rounded up), or of characters of the string; the runs of a ruby
   token are shorter than the buffer. *)
StepsBounded ==
  /\ input.kind = "decode" => 2 * one.steps <= Len(input.data) + 1
  /\ input.kind = "encode" => one.steps <= Len(input.data)
  /\ (input.kind = "decode" /\ pc = "loop")
       => \A run \in RubyRuns(input.data, one.i) : Len(run) < Len(input.data)

(* Every iteration moves the index forward, unless an exception leaves the
   function first. *)
IndexIncreases ==
  one'.steps = one.steps + 1 => (one'.i > one.i \/ (pc' = "done" /\ (lines' = Err \/ buf' = Err)))

(* C30: decoding a buffer and encoding a string terminate: the index grows
   with every iteration, the iterations are bounded by the length of the
   input, the runs handed to the recursive calls are shorter than the
   buffer, and the loop is left, by a return or an exception. *)
LoopsTerminate ==
  /\ [][IndexIncreases]_vars
  /\ [](StepsBounded /\ LoopResult)
  /\ <>(pc = "done")

LoopsTerminateSeen ==
  /\ pc = "done" /\ input.kind = "decode" /\ one.steps = 1 /\ one.i = 30
  /\ input.data = PackUnits(<<16, 8, 65281, 5, 0, 16, 3, 65281, 0, 0, 65>>)
  /\ lines = Ok(<<123, 123, 124, 125, 124, 124, 65, 125>>)

---------------------------------------------------------------------------
(* Every run: the cipher alone, the write path, the round trip of a file    *)
(* written elsewhere, the read path on damaged input, one line through the  *)
(* grammar, the game selector, units and codes through the lookups, an      *)
(* object under assignments, the labels joined to the lines, and the two    *)
(* loops one iteration at a time.                                           *)

Init ==
  InitCipher \/ InitWrite \/ InitRoundTrip \/ InitRead \/ InitLine \/ InitConfig \/ InitUnits \/ InitAssign \/ InitLabels
    \/ InitSteps

Next ==
  NextCipher \/ NextWrite \/ NextRoundTrip \/ NextRead \/ NextLine \/ NextConfig \/ NextUnits \/ NextAssign \/ NextLabels
    \/ NextSteps

Spec == Init /\ [][Next]_vars

====
